---- MODULE Spec2Model ----
(***************************************************************************)
(* Model of github-wrapped-app: the preference store                       *)
(* (src/utils/preferences.ts) and the dashboard's batched analysis run     *)
(* (src/app/dashboard/page.tsx) with the three API routes it calls.        *)
(*                                                                         *)
(* JavaScript values are modelled as follows.                              *)
(*  - an optional field that is undefined or missing is the string         *)
(*    "absent" (JSON.stringify drops undefined fields, and the code reads  *)
(*    them only through ??, || and !== undefined, which do not tell the    *)
(*    two apart); optional booleans are "true" / "false" / "absent";       *)
(*  - scanCount and lastScanned are numbers, 0 standing for absent         *)
(*    (the code only ever stores (scanCount || 0) + 1 and a timestamp);    *)
(*  - the module-level objects DEFAULT_PREFERENCES and                     *)
(*    DEFAULT_REPO_PREFERENCE are mutable heap objects, so they are        *)
(*    variables; a record whose deploymentUrls array IS the array of       *)
(*    DEFAULT_REPO_PREFERENCE (a shallow copy { ...DEFAULT_REPO_PREFERENCE *)
(*    }) carries sharedUrls = TRUE and reads its URLs from there.          *)
(***************************************************************************)
EXTENDS Integers, Sequences, FiniteSets, TLC

\* ------------------------------------------------------------------ bounds
Names == {"a", "b"}
URLS == {"A", "B"}
Groups == {"g"}
Narratives == {"n"}
MaxFresh == 2
MaxClock == 2
MaxOps == 3
MaxUrlOps == 4
MaxNamed == 2

Modes == {"ai", "manual", "mixed"}
Absent == "absent"
NoHomepage == "null"

VARIABLES
  storedPrefs,              \* localStorage slot 'githubWrapped_preferences'
  DEFAULT_PREFERENCES,      \* module object, preferences.ts:6
  DEFAULT_REPO_PREFERENCE,  \* module object, preferences.ts:13
  clock,                    \* the value new Date() yields next
  lastOp,                   \* the preference helper that ran last, its arguments and result
  nOps,                     \* number of preference helpers called so far
  urlHistory,               \* per repository: the homepage of the latest merge that
                            \* had one, and the URLs the user added and did not remove
  \* ---- the dashboard (src/app/dashboard/page.tsx)
  allowlisted,              \* the session's login is in ALLOWED_USERS
  apiKey,                   \* localStorage slot 'openai_api_key' is set
  selectedRepos,            \* the repositories selected when the run started
  pc,                       \* where analyzeRepositories stands
  batchStart,               \* the loop variable i of analyzeRepositories
  pipe,                     \* per selected repository: its analyzeRepo call
  analyzedResults,          \* the local list analyzedResults
  groupCalls,               \* fetches of /api/github/group in this run
  groupBody,                \* the body of that fetch
  groupOutcome,             \* what that fetch met: the upstream kind, "none" before it
  bundle,                   \* the localStorage slots written for the wrapped page
  showApiKeyModal,
  pendingAnalysis,
  phase,                    \* progress.phase
  \* ---- the stats route (src/app/api/github/stats/route.ts)
  retry,                    \* one call of fetchContributorStatsWithRetry
  \* ---- the model routes (src/app/api/github/analyze, group)
  probeModelCalls,          \* upstream model calls made while serving '__check__' probes
  served,                   \* the request a route served last and what it did with it
  \* ---- two tabs of the application on one localStorage
  tabs,                     \* per tab: the object its helper loaded and mutated
  lastWrite,                \* the save that wrote the slot last, and the one before
  \* ---- the dashboard's list
  dashRepositories,         \* names of the repositories the dashboard shows
  \* ---- the report (src/app/wrapped/page.tsx)
  wrapped                   \* its state repositories, and the rescans in flight

prefVars == <<storedPrefs, DEFAULT_PREFERENCES, DEFAULT_REPO_PREFERENCE, clock, lastOp>>
runVars == <<allowlisted, apiKey, selectedRepos, pc, batchStart, pipe, analyzedResults,
             groupCalls, groupBody, groupOutcome, bundle, showApiKeyModal, pendingAnalysis,
             phase>>
routeVars == <<retry, probeModelCalls, served>>
pageVars == <<tabs, lastWrite, dashRepositories, wrapped>>
vars == <<prefVars, nOps, urlHistory, runVars, routeVars, pageVars>>

\* ------------------------------------------------------------ heap values
\* deploymentUrls of a record, following the alias to the default array
urlsOf(rec, du) == IF rec.sharedUrls THEN du ELSE rec.deploymentUrls

\* { ...DEFAULT_REPO_PREFERENCE }: a shallow copy, the array is shared
defaultRepoCopy ==
  [aiAssisted |-> DEFAULT_REPO_PREFERENCE.aiAssisted,
   selected |-> DEFAULT_REPO_PREFERENCE.selected,
   customGroup |-> Absent, narrative |-> Absent,
   lastScanned |-> 0, scanCount |-> 0,
   deploymentUrls |-> <<>>, sharedUrls |-> TRUE]

\* JSON.parse(JSON.stringify(prefs)): every array becomes an own copy
stringify(prefs, du) ==
  [defaultMode |-> prefs.defaultMode,
   repos |-> [n \in DOMAIN prefs.repos |->
                [prefs.repos[n] EXCEPT !.deploymentUrls = urlsOf(prefs.repos[n], du),
                                       !.sharedUrls = FALSE]],
   customGroups |-> prefs.customGroups]

EmptyPrefs == [defaultMode |-> "mixed", repos |-> <<>>, customGroups |-> <<>>]

\* loadPreferences hands out DEFAULT_PREFERENCES itself when the slot is
\* missing or does not parse
aliased == storedPrefs.kind # "json"

loadPreferences ==
  IF storedPrefs.kind = "json" THEN storedPrefs.value ELSE DEFAULT_PREFERENCES

\* what a caller reads through loadPreferences(), arrays resolved
loadedView == stringify(loadPreferences, DEFAULT_REPO_PREFERENCE.deploymentUrls)

existingOrDefault(prefs, repoName) ==
  IF repoName \in DOMAIN prefs.repos THEN prefs.repos[repoName] ELSE defaultRepoCopy

\* getRepoPreference(repoName), the array of the record resolved
getRepoPreference(repoName) ==
  LET rec == existingOrDefault(loadPreferences, repoName)
  IN [rec EXCEPT !.deploymentUrls = urlsOf(rec, DEFAULT_REPO_PREFERENCE.deploymentUrls),
                 !.sharedUrls = FALSE]

\* prefs.repos[repoName] = rec
putRepo(prefs, repoName, rec) ==
  [prefs EXCEPT !.repos =
     [n \in DOMAIN prefs.repos \cup {repoName} |->
        IF n = repoName THEN rec ELSE prefs.repos[n]]]

\* the end of every helper: the mutated object is DEFAULT_PREFERENCES when
\* it was handed out by loadPreferences, the default array keeps what was
\* pushed into it, and savePreferences writes the JSON text
commit(prefs, du, save, op) ==
  /\ DEFAULT_PREFERENCES' = IF aliased THEN prefs ELSE DEFAULT_PREFERENCES
  /\ DEFAULT_REPO_PREFERENCE' = [DEFAULT_REPO_PREFERENCE EXCEPT !.deploymentUrls = du]
  /\ storedPrefs' = IF save THEN [kind |-> "json", value |-> stringify(prefs, du)]
                    ELSE storedPrefs
  /\ lastOp' = [op EXCEPT !.writer = IF save THEN op.op ELSE lastOp.writer]

\* writer is the helper that wrote the slot last
noOp == [op |-> "none", name |-> Absent, ret |-> Absent, arg |-> Absent, names |-> {},
         fresh |-> <<>>, list |-> <<>>, writer |-> "none"]

freshRepoObjects ==
  /\ DEFAULT_PREFERENCES = EmptyPrefs
  /\ DEFAULT_REPO_PREFERENCE = [aiAssisted |-> "false", selected |-> FALSE, deploymentUrls |-> <<>>]

\* --------------------------------------------------------------- helpers
\* { ...existing, ...update }
applyUpdate(existing, update) ==
  [f \in DOMAIN existing |-> IF f \in DOMAIN update THEN update[f] ELSE existing[f]]

setRepoPreference(repoName, update) ==
  LET prefs == loadPreferences
      existing == existingOrDefault(prefs, repoName)
  IN /\ commit(putRepo(prefs, repoName, applyUpdate(existing, update)),
               DEFAULT_REPO_PREFERENCE.deploymentUrls, TRUE,
               [noOp EXCEPT !.op = "setRepoPreference", !.name = repoName])
     /\ UNCHANGED clock

\* a setDefaultMode that also drops every record's explicit aiAssisted
setDefaultMode_dropsOverrides(mode) ==
  /\ commit([defaultMode |-> mode,
             repos |-> [n \in DOMAIN loadPreferences.repos |->
                          [loadPreferences.repos[n] EXCEPT !.aiAssisted = Absent]],
             customGroups |-> loadPreferences.customGroups],
            DEFAULT_REPO_PREFERENCE.deploymentUrls, TRUE,
            [noOp EXCEPT !.op = "setDefaultMode", !.arg = mode])
  /\ UNCHANGED clock

setDefaultMode(mode) ==
  /\ commit([loadPreferences EXCEPT !.defaultMode = mode],
            DEFAULT_REPO_PREFERENCE.deploymentUrls, TRUE,
            [noOp EXCEPT !.op = "setDefaultMode", !.arg = mode])
  /\ UNCHANGED clock

boolStr(b) == IF b THEN "true" ELSE "false"

\* existing.aiAssisted ?? (prefs.defaultMode === 'ai')
currentValue(existing, defaultMode) ==
  IF existing.aiAssisted # Absent THEN existing.aiAssisted = "true"
  ELSE defaultMode = "ai"

toggleAiAssisted(repoName) ==
  LET prefs == loadPreferences
      existing == existingOrDefault(prefs, repoName)
      newValue == ~currentValue(existing, prefs.defaultMode)
  IN /\ commit(putRepo(prefs, repoName, [existing EXCEPT !.aiAssisted = boolStr(newValue)]),
               DEFAULT_REPO_PREFERENCE.deploymentUrls, TRUE,
               [noOp EXCEPT !.op = "toggleAiAssisted", !.name = repoName,
                            !.ret = boolStr(newValue)])
     /\ UNCHANGED clock

\* { ...existing, lastScanned: now, scanCount: (existing.scanCount || 0) + 1 }
\* a stamp that records one scan however many there were before
scanned_countOne(existing, now) ==
  [existing EXCEPT !.lastScanned = now, !.scanCount = 1]

scanned(existing, now) ==
  [existing EXCEPT !.lastScanned = now, !.scanCount = existing.scanCount + 1]

markRepoScanned(repoName) ==
  LET prefs == loadPreferences
  IN /\ clock <= MaxClock
     /\ commit(putRepo(prefs, repoName, scanned(existingOrDefault(prefs, repoName), clock)),
               DEFAULT_REPO_PREFERENCE.deploymentUrls, TRUE,
               [noOp EXCEPT !.op = "markRepoScanned", !.name = repoName])
     /\ clock' = clock + 1

\* the forEach of markReposScanned over one loaded object
RECURSIVE markAll(_, _, _)
markAll(prefs, repoNames, now) ==
  IF repoNames = <<>> THEN prefs
  ELSE markAll(putRepo(prefs, Head(repoNames),
                       scanned(existingOrDefault(prefs, Head(repoNames)), now)),
               Tail(repoNames), now)

markReposScanned(repoNames) ==
  /\ clock <= MaxClock
  /\ commit(markAll(loadPreferences, repoNames, clock),
            DEFAULT_REPO_PREFERENCE.deploymentUrls, TRUE,
            [noOp EXCEPT !.op = "markReposScanned", !.list = repoNames,
                         !.names = {repoNames[k] : k \in 1..Len(repoNames)}])
  /\ clock' = clock + 1

\* existing.deploymentUrls.some(u => u.url === url)
hasUrl(urls, url) == \E i \in 1..Len(urls) : urls[i].url = url

customUrl(url) == [url |-> url, label |-> "Custom", autoDetected |-> FALSE]

\* the array a record points at gets a new content; when the array is the
\* one of DEFAULT_REPO_PREFERENCE it is that array which changes
writeUrls(rec, du, urls) ==
  IF rec.sharedUrls THEN [rec |-> rec, du |-> urls]
  ELSE [rec |-> [rec EXCEPT !.deploymentUrls = urls], du |-> du]

\* an add without the duplicate test
addDeploymentUrl_alwaysPushes(repoName, url) ==
  LET prefs == loadPreferences
      du == DEFAULT_REPO_PREFERENCE.deploymentUrls
      existing == existingOrDefault(prefs, repoName)
      pushed == writeUrls(existing, du, Append(urlsOf(existing, du), url))
  IN /\ commit(putRepo(prefs, repoName, pushed.rec), pushed.du, TRUE,
               [noOp EXCEPT !.op = "addDeploymentUrl", !.name = repoName, !.arg = url.url])
     /\ UNCHANGED clock

addDeploymentUrl(repoName, url) ==
  LET prefs == loadPreferences
      du == DEFAULT_REPO_PREFERENCE.deploymentUrls
      existing == existingOrDefault(prefs, repoName)
      exists == hasUrl(urlsOf(existing, du), url.url)
      pushed == writeUrls(existing, du, Append(urlsOf(existing, du), url))
  IN /\ IF ~exists
        THEN commit(putRepo(prefs, repoName, pushed.rec), pushed.du, TRUE,
                    [noOp EXCEPT !.op = "addDeploymentUrl", !.name = repoName, !.arg = url.url])
        ELSE commit(prefs, du, FALSE,
                    [noOp EXCEPT !.op = "addDeploymentUrl", !.name = repoName, !.arg = url.url])
     /\ UNCHANGED clock

\* existing.deploymentUrls.filter(u => u.url !== url)
withoutUrl(urls, url) == SelectSeq(urls, LAMBDA u : u.url # url)

removeDeploymentUrl(repoName, url) ==
  LET prefs == loadPreferences
      du == DEFAULT_REPO_PREFERENCE.deploymentUrls
      op == [noOp EXCEPT !.op = "removeDeploymentUrl", !.name = repoName, !.arg = url]
  IN /\ IF repoName \in DOMAIN prefs.repos
        THEN commit(putRepo(prefs, repoName,
                            [prefs.repos[repoName] EXCEPT
                               !.deploymentUrls = withoutUrl(urlsOf(prefs.repos[repoName], du), url),
                               !.sharedUrls = FALSE]),
                    du, TRUE, op)
        ELSE commit(prefs, du, FALSE, op)
     /\ UNCHANGED clock

createCustomGroup(name, icon) ==
  LET prefs == loadPreferences
  IN /\ commit([prefs EXCEPT !.customGroups =
                  [g \in DOMAIN prefs.customGroups \cup {name} |->
                     IF g = name THEN [name |-> name, icon |-> icon, description |-> ""]
                     ELSE prefs.customGroups[g]]],
               DEFAULT_REPO_PREFERENCE.deploymentUrls, TRUE,
               [noOp EXCEPT !.op = "createCustomGroup", !.arg = name])
     /\ UNCHANGED clock

\* a deletion that drops the group and leaves the records alone
deleteCustomGroup_keepsReferences(name) ==
  LET prefs == loadPreferences
  IN /\ commit([prefs EXCEPT
                  !.customGroups = [g \in DOMAIN prefs.customGroups \ {name} |-> prefs.customGroups[g]]],
               DEFAULT_REPO_PREFERENCE.deploymentUrls, TRUE,
               [noOp EXCEPT !.op = "deleteCustomGroup", !.arg = name])
     /\ UNCHANGED clock

deleteCustomGroup(name) ==
  LET prefs == loadPreferences
  IN /\ commit([prefs EXCEPT
                  !.customGroups = [g \in DOMAIN prefs.customGroups \ {name} |-> prefs.customGroups[g]],
                  !.repos = [n \in DOMAIN prefs.repos |->
                               IF prefs.repos[n].customGroup = name
                               THEN [prefs.repos[n] EXCEPT !.customGroup = Absent]
                               ELSE prefs.repos[n]]],
               DEFAULT_REPO_PREFERENCE.deploymentUrls, TRUE,
               [noOp EXCEPT !.op = "deleteCustomGroup", !.arg = name])
     /\ UNCHANGED clock

resetAllPreferences ==
  /\ storedPrefs' = [kind |-> "json",
                     value |-> stringify(DEFAULT_PREFERENCES,
                                         DEFAULT_REPO_PREFERENCE.deploymentUrls)]
  /\ lastOp' = [noOp EXCEPT !.op = "resetAllPreferences", !.writer = "resetAllPreferences"]
  /\ UNCHANGED <<DEFAULT_PREFERENCES, DEFAULT_REPO_PREFERENCE, clock>>

\* pref.deploymentUrls.filter(u => u.autoDetected)
autoOnly(urls) == SelectSeq(urls, LAMBDA u : u.autoDetected)

resetPreferencesKeepSelection ==
  LET prefs == loadPreferences
      du == DEFAULT_REPO_PREFERENCE.deploymentUrls
      reset == [defaultMode |-> "mixed",
                repos |-> [n \in DOMAIN prefs.repos |->
                             [aiAssisted |-> "false", selected |-> prefs.repos[n].selected,
                              customGroup |-> Absent, narrative |-> Absent,
                              lastScanned |-> 0, scanCount |-> 0,
                              deploymentUrls |-> autoOnly(urlsOf(prefs.repos[n], du)),
                              sharedUrls |-> FALSE]],
                customGroups |-> <<>>]
  IN /\ storedPrefs' = [kind |-> "json", value |-> reset]
     /\ lastOp' = [noOp EXCEPT !.op = "resetPreferencesKeepSelection",
                                !.writer = "resetPreferencesKeepSelection"]
     /\ UNCHANGED <<DEFAULT_PREFERENCES, DEFAULT_REPO_PREFERENCE, clock>>

bulkSetAiAssisted(repoNames, aiAssisted) ==
  LET prefs == loadPreferences
  IN /\ commit([prefs EXCEPT !.repos =
                  [n \in DOMAIN prefs.repos \cup repoNames |->
                     IF n \in repoNames
                     THEN [existingOrDefault(prefs, n) EXCEPT !.aiAssisted = boolStr(aiAssisted)]
                     ELSE prefs.repos[n]]],
               DEFAULT_REPO_PREFERENCE.deploymentUrls, TRUE,
               [noOp EXCEPT !.op = "bulkSetAiAssisted", !.names = repoNames])
     /\ UNCHANGED clock

bulkSetSelected(repoNames, selected) ==
  LET prefs == loadPreferences
  IN /\ commit([prefs EXCEPT !.repos =
                  [n \in DOMAIN prefs.repos \cup repoNames |->
                     IF n \in repoNames
                     THEN [existingOrDefault(prefs, n) EXCEPT !.selected = selected]
                     ELSE prefs.repos[n]]],
               DEFAULT_REPO_PREFERENCE.deploymentUrls, TRUE,
               [noOp EXCEPT !.op = "bulkSetSelected", !.names = repoNames])
     /\ UNCHANGED clock

\* ------------------------------------------- mergeWithExistingPreferences
websiteUrl(homepage) == [url |-> homepage, label |-> "Website", autoDetected |-> TRUE]

\* a seeding that takes 'mixed' for AI-assisted
seedAiAssisted_mixedTrue(defaultMode) == defaultMode # "manual"

\* 'mixed' defaults to false, user must specify
seedAiAssisted(defaultMode) ==
  IF defaultMode = "ai" THEN TRUE ELSE IF defaultMode = "manual" THEN FALSE ELSE FALSE

\* the record created for a repository that has none
newRepoRecord(defaultMode, homepage) ==
  [aiAssisted |-> boolStr(seedAiAssisted(defaultMode)), selected |-> FALSE,
   customGroup |-> Absent, narrative |-> Absent, lastScanned |-> 0, scanCount |-> 0,
   deploymentUrls |-> IF homepage # NoHomepage THEN <<websiteUrl(homepage)>> ELSE <<>>,
   sharedUrls |-> FALSE]

\* existing.deploymentUrls.some(u => u.autoDetected && u.url === repo.homepage)
hasAutoUrl(urls, homepage) ==
  \E i \in 1..Len(urls) : urls[i].autoDetected /\ urls[i].url = homepage

\* existing.deploymentUrls.findIndex(u => u.autoDetected), 0 for -1
autoIndex(urls) ==
  IF \E i \in 1..Len(urls) : urls[i].autoDetected
  THEN CHOOSE i \in 1..Len(urls) :
         urls[i].autoDetected /\ \A j \in 1..(i - 1) : ~urls[j].autoDetected
  ELSE 0

\* a merge that writes the homepage over the first entry, whatever it is
mergedUrls_firstEntry(urls, homepage) ==
  IF homepage = NoHomepage \/ hasAutoUrl(urls, homepage) THEN urls
  ELSE IF urls # <<>>
       THEN [urls EXCEPT ![1] = websiteUrl(homepage)]
       ELSE Append(urls, websiteUrl(homepage))

\* the else branch: the deploymentUrls of an existing record after the merge
mergedUrls(urls, homepage) ==
  IF homepage = NoHomepage \/ hasAutoUrl(urls, homepage) THEN urls
  ELSE IF autoIndex(urls) > 0
       THEN [urls EXCEPT ![autoIndex(urls)].url = homepage]
       ELSE Append(urls, websiteUrl(homepage))

\* one pass of the for loop; w = [prefs, du]
mergeOne(w, repo) ==
  IF repo.name \notin DOMAIN w.prefs.repos
  THEN [prefs |-> putRepo(w.prefs, repo.name, newRepoRecord(w.prefs.defaultMode, repo.homepage)),
        du |-> w.du]
  ELSE LET existing == w.prefs.repos[repo.name]
           written == writeUrls(existing, w.du, mergedUrls(urlsOf(existing, w.du), repo.homepage))
       IN [prefs |-> putRepo(w.prefs, repo.name, written.rec), du |-> written.du]

RECURSIVE mergeLoop(_, _)
mergeLoop(w, newRepos) ==
  IF newRepos = <<>> THEN w
  ELSE mergeLoop(mergeOne(w, Head(newRepos)), Tail(newRepos))

mergeWithExistingPreferences(newRepos) ==
  LET merged == mergeLoop([prefs |-> loadPreferences,
                           du |-> DEFAULT_REPO_PREFERENCE.deploymentUrls], newRepos)
  IN /\ commit(merged.prefs, merged.du, TRUE,
               [noOp EXCEPT !.op = "mergeWithExistingPreferences", !.fresh = newRepos])
     /\ UNCHANGED clock

\* the page is loaded again: the module objects are built anew, the
\* localStorage slot stays
Reload ==
  /\ DEFAULT_PREFERENCES' = EmptyPrefs
  /\ DEFAULT_REPO_PREFERENCE' = [aiAssisted |-> "false", selected |-> FALSE, deploymentUrls |-> <<>>]
  /\ lastOp' = [noOp EXCEPT !.op = "Reload", !.writer = lastOp.writer]
  /\ UNCHANGED <<storedPrefs, clock>>


\* ------------------------------------------------ the mode selector
\* an override clearing that writes an explicit false
clearOverrides_explicitFalse(prefs) ==
  [prefs EXCEPT !.repos =
     [n \in DOMAIN prefs.repos |-> [prefs.repos[n] EXCEPT !.aiAssisted = "false"]]]

\* prefs.repos[repoName] = { ...prefs.repos[repoName], aiAssisted: undefined }
\* for every key of prefs.repos
clearOverrides(prefs) ==
  [prefs EXCEPT !.repos =
     [n \in DOMAIN prefs.repos |-> [prefs.repos[n] EXCEPT !.aiAssisted = Absent]]]

\* handleModeChange of the dashboard and of the wrapped page:
\* setDefaultMode(mode), then, unless the mode is mixed, loadPreferences(),
\* the clearing and savePreferences(prefs)
handleModeChange(mode) ==
  LET du == DEFAULT_REPO_PREFERENCE.deploymentUrls
      first == [loadPreferences EXCEPT !.defaultMode = mode]
      reloaded == stringify(first, du)
  IN /\ DEFAULT_PREFERENCES' = IF aliased THEN first ELSE DEFAULT_PREFERENCES
     /\ storedPrefs' = [kind |-> "json",
                        value |-> IF mode # "mixed" THEN clearOverrides(reloaded) ELSE reloaded]
     /\ lastOp' = [noOp EXCEPT !.op = "handleModeChange", !.arg = mode,
                               !.writer = IF mode # "mixed" THEN "handleModeChange"
                                          ELSE "setDefaultMode"]
     /\ UNCHANGED <<DEFAULT_REPO_PREFERENCE, clock>>

\* ------------------------------------------ the derived AI/manual counts
\* wrapped/page.tsx: pref?.aiAssisted !== undefined ? pref.aiAssisted
\*                                                  : developmentMode === 'ai'
checkAiAssisted(prefs, repoName) ==
  IF repoName \in DOMAIN prefs.repos /\ prefs.repos[repoName].aiAssisted # Absent
  THEN prefs.repos[repoName].aiAssisted = "true"
  ELSE prefs.defaultMode = "ai"

\* repositories.filter(r => checkAiAssisted(r.name)).length
aiAssistedRepos(prefs, repositories) ==
  Cardinality({r \in repositories : checkAiAssisted(prefs, r)})

\* repositories.length - aiAssistedRepos
manualRepos(prefs, repositories) ==
  Cardinality(repositories) - aiAssistedRepos(prefs, repositories)

\* exportHTML.ts: the same test over data.repoPreferences and
\* data.developmentMode
isAiAssisted(prefs, repoName) ==
  IF repoName \in DOMAIN prefs.repos /\ prefs.repos[repoName].aiAssisted # Absent
  THEN prefs.repos[repoName].aiAssisted = "true"
  ELSE prefs.defaultMode = "ai"

\* group/route.ts: userPreferences?.repos?.[repo.name]?.aiAssisted ?? null
userReportedAi(userPreferences, repoName) ==
  IF repoName \in DOMAIN userPreferences.repos
     /\ userPreferences.repos[repoName].aiAssisted # Absent
  THEN userPreferences.repos[repoName].aiAssisted
  ELSE "null"

\* if (userReportedAi === true) userReportedAiRepos++
userReportedAiRepos(userPreferences, repositories) ==
  Cardinality({r \in repositories : userReportedAi(userPreferences, r) = "true"})

\* if (userReportedAi === false) userReportedManualRepos++
userReportedManualRepos(userPreferences, repositories) ==
  Cardinality({r \in repositories : userReportedAi(userPreferences, r) = "false"})

\* =============================================== the analysis run
\* the repositories the provider lists, by position; names are distinct
RepoNames == <<"a", "b", "c", "d", "e", "f", "g", "h", "i", "j", "k">>
BATCH_SIZE == 8
MaxSelected == 2
BigRun == 9
MaxGroups == 2
UnknownRepo == "zz"

\* repo.language as the provider reports it
languageOf(name) ==
  IF name = "a" THEN "TypeScript" ELSE IF name = "b" THEN "null" ELSE "Python"

\* the JSON the stats route answers: the statistics, or { error } with
\* status 500 (stats/route.ts:206)
statsJson(name, kind) ==
  LET k == CHOOSE i \in 1..Len(RepoNames) : RepoNames[i] = name
  IN IF kind = "ok"
     THEN [commits |-> k, additions |-> 3 * k, deletions |-> k, net |-> 2 * k]
     ELSE [commits |-> 0, additions |-> 0, deletions |-> 0, net |-> 0]

\* one analyzeRepo call: where it stands, the body the stats fetch gave
\* ("ok", "error" for { error }, "threw" when the fetch itself failed), the
\* summary it got and the error marker set on the repository
idlePipe == [st |-> "idle", stats |-> "none", summary |-> "none", error |-> Absent]

Min(x, y) == IF x < y THEN x ELSE y

\* selectedRepos.slice(i, i + BATCH_SIZE), as positions
batchOf(i) == (i + 1)..Min(i + BATCH_SIZE, Len(selectedRepos))

\* a wait that is over as soon as every stats fetch has answered
settled_statsOnly(p) == p.st # "stats"

settled(p) == p.st \in {"ok", "failed"}

\* batch.map(async repo => analyzeRepo(repo)): every member's stats fetch
\* is issued
startBatch(pipes, i) ==
  [k \in DOMAIN pipes |-> IF k \in batchOf(i) THEN [idlePipe EXCEPT !.st = "stats"] ELSE pipes[k]]

\* a credential test that does not look at the key header
byokRequired_keyIgnored(isAllowlisted, keyHeader) == ~isAllowlisted

\* !isUserAllowlisted(username) && !userApiKey (analyze/route.ts:39, group/route.ts:36)
byokRequired(isAllowlisted, keyHeader) == ~isAllowlisted /\ ~keyHeader

\* ---- the allowlist and the summarizer route
\* username.toLowerCase(), u.trim().toLowerCase() over the texts used
trim(t) == IF t = " " THEN "" ELSE IF t = " Alice " THEN "Alice" ELSE t
toLowerCase(t) == IF t = "Alice" THEN "alice" ELSE IF t = " Alice " THEN " alice " ELSE t

\* ALLOWED_USERS?.split(',').map(...).filter(u => u.length > 0) || []
allowlist(ALLOWED_USERS) ==
  IF ALLOWED_USERS = <<"undefined">> THEN {}
  ELSE {toLowerCase(trim(ALLOWED_USERS[k])) : k \in 1..Len(ALLOWED_USERS)} \ {""}

isUserAllowlisted(username, ALLOWED_USERS) ==
  IF username = "" \/ trim(username) = "" THEN FALSE
  ELSE toLowerCase(username) \in allowlist(ALLOWED_USERS)

\* the header x-openai-key: null when not sent
NoHeader == "null"
truthy(header) == header # NoHeader /\ header # ""

\* getOpenAIClient(isUserAllowlisted(username) ? undefined : userApiKey || undefined)
clientKey(isAllowlisted, keyHeader) ==
  IF isAllowlisted THEN "OPENAI_API_KEY"
  ELSE IF truthy(keyHeader) THEN keyHeader ELSE "OPENAI_API_KEY"

noCall == [route |-> "none", session |-> FALSE, login |-> "", ALLOWED_USERS |-> <<"undefined">>,
           keyHeader |-> NoHeader, repoName |-> "", stats |-> "undefined", repositories |-> <<>>,
           status |-> 0, code |-> "none", modelCalls |-> 0, clientKey |-> "none"]

\* POST of analyze/route.ts; req.stats is "undefined", "empty" for {} or
\* "stats"; upstream is what the model call meets
analyzeRoute(req, upstream) ==
  LET isAllowlisted == isUserAllowlisted(req.login, req.ALLOWED_USERS)
      out(status, code, calls, key) ==
        [req EXCEPT !.route = "analyze", !.status = status, !.code = code,
                    !.modelCalls = calls, !.clientKey = key]
  IN IF ~req.session THEN out(401, "none", 0, "none")
     ELSE IF byokRequired(isAllowlisted, truthy(req.keyHeader))
     THEN out(403, "BYOK_REQUIRED", 0, "none")
     ELSE IF req.repoName = "" \/ req.stats = "undefined"
     THEN out(400, "none", 0, clientKey(isAllowlisted, req.keyHeader))
     ELSE out(200, IF upstream = "modelFails" THEN "fallback" ELSE "none", 1,
              clientKey(isAllowlisted, req.keyHeader))

\* body: JSON.stringify({ repoName: '__check__', stats: {} }) with
\* getAIHeaders(), sent only when no key is stored
probeRequest ==
  [noCall EXCEPT !.session = TRUE,
                 !.login = IF allowlisted THEN "alice" ELSE "bob",
                 !.ALLOWED_USERS = <<"alice">>,
                 !.repoName = "__check__", !.stats = "empty"]

\* from "Initialize progress" to the first await of the loop
beginBatches ==
  /\ phase' = "fetching-stats"
  /\ batchStart' = 0
  /\ analyzedResults' = <<>>
  /\ pipe' = startBatch([k \in 1..Len(selectedRepos) |-> idlePipe], 0)
  /\ pc' = "batch"

\* analyzeRepositories, up to its first await
startRun ==
  IF ~apiKey
  THEN /\ pc' = "preflight"
       /\ UNCHANGED <<phase, batchStart, analyzedResults, pipe>>
  ELSE beginBatches

ClickAnalyze ==
  /\ pc = "idle" /\ phase = "idle" /\ ~showApiKeyModal
  /\ Len(selectedRepos) > 0
  /\ startRun
  /\ groupCalls' = 0
  /\ UNCHANGED <<prefVars, nOps, urlHistory, routeVars, pageVars, groupOutcome, allowlisted, apiKey, selectedRepos, groupBody, bundle,
                 showApiKeyModal, pendingAnalysis>>

\* the answer to the '__check__' probe; outcome "throws" is a failed fetch
PreflightResponds(outcome) ==
  /\ pc = "preflight"
  /\ IF outcome = "response" /\ byokRequired(allowlisted, apiKey)
     THEN /\ pendingAnalysis' = TRUE
          /\ showApiKeyModal' = TRUE
          /\ pc' = "halted"
          /\ UNCHANGED <<phase, batchStart, analyzedResults, pipe>>
     ELSE /\ beginBatches
          /\ UNCHANGED <<pendingAnalysis, showApiKeyModal>>
  /\ IF outcome = "throws" THEN UNCHANGED probeModelCalls
     ELSE \E up \in {"answer", "modelFails"} :
            probeModelCalls' = probeModelCalls + analyzeRoute(probeRequest, up).modelCalls
  /\ UNCHANGED <<retry, served, pageVars>>
  /\ UNCHANGED <<prefVars, nOps, urlHistory, groupOutcome, allowlisted, apiKey, selectedRepos, groupCalls, groupBody, bundle>>

\* analyzeRepo after await fetch('/api/github/stats'): the status is not
\* looked at, the body becomes stats
StatsResponds(k, outcome) ==
  /\ pc = "batch" /\ k \in DOMAIN pipe /\ pipe[k].st = "stats"
  /\ pipe' = [pipe EXCEPT ![k] =
       IF outcome = "throws"
       THEN [@ EXCEPT !.st = "failed", !.stats = "threw", !.error = "fetch failed"]
       ELSE [@ EXCEPT !.st = "analyze", !.stats = outcome]]
  /\ UNCHANGED <<prefVars, nOps, urlHistory, routeVars, pageVars, groupOutcome, allowlisted, apiKey, selectedRepos, pc, batchStart,
                 analyzedResults, groupCalls, groupBody, bundle, showApiKeyModal,
                 pendingAnalysis, phase>>

\* analyzeRepo after await fetch('/api/github/analyze')
AnalyzeResponds(k, outcome) ==
  /\ pc = "batch" /\ k \in DOMAIN pipe /\ pipe[k].st = "analyze"
  /\ pipe' = [pipe EXCEPT ![k] =
       IF outcome = "throws"
       THEN [@ EXCEPT !.st = "failed", !.error = "fetch failed"]
       ELSE IF byokRequired(allowlisted, apiKey)
       THEN [@ EXCEPT !.st = "failed", !.error = "BYOK_REQUIRED"]
       ELSE [@ EXCEPT !.st = "ok",
                      !.summary = IF outcome = "summary" THEN "summary" ELSE "undefined"]]
  /\ UNCHANGED <<prefVars, nOps, urlHistory, routeVars, pageVars, groupOutcome, allowlisted, apiKey, selectedRepos, pc, batchStart,
                 analyzedResults, groupCalls, groupBody, bundle, showApiKeyModal,
                 pendingAnalysis, phase>>

\* a forEach that pushes every member of the batch, failed or not
RECURSIVE pushResults_all(_, _, _)
pushResults_all(results, pipes, ks) ==
  IF ks = {} THEN results
  ELSE LET k == CHOOSE x \in ks : \A y \in ks : x <= y
       IN pushResults_all(Append(results, [name |-> selectedRepos[k], stats |-> pipes[k].stats,
                                           summary |-> pipes[k].summary]),
                          pipes, ks \ {k})

\* batchResults.forEach(result => { if (result) analyzedResults.push(result) })
RECURSIVE pushResults(_, _, _)
pushResults(results, pipes, ks) ==
  IF ks = {} THEN results
  ELSE LET k == CHOOSE x \in ks : \A y \in ks : x <= y
           next == IF pipes[k].st = "ok"
                   THEN Append(results, [name |-> selectedRepos[k], stats |-> pipes[k].stats,
                                         summary |-> pipes[k].summary])
                   ELSE results
       IN pushResults(next, pipes, ks \ {k})

\* analyzedResults.reduce(...) over repo.stats
RECURSIVE totalStats(_)
totalStats(results) ==
  IF results = <<>>
  THEN [totalCommits |-> 0, totalAdditions |-> 0, totalDeletions |-> 0, totalNet |-> 0]
  ELSE LET acc == totalStats(SubSeq(results, 1, Len(results) - 1))
           st == statsJson(results[Len(results)].name, results[Len(results)].stats)
       IN [totalCommits |-> acc.totalCommits + st.commits,
           totalAdditions |-> acc.totalAdditions + st.additions,
           totalDeletions |-> acc.totalDeletions + st.deletions,
           totalNet |-> acc.totalNet + st.net]

\* after await Promise.all(batchPromises): the results are pushed, and the
\* loop either issues the next batch or leaves for the grouping fetch
BatchSettled ==
  /\ pc = "batch"
  /\ \A k \in batchOf(batchStart) : settled(pipe[k])
  /\ LET results == pushResults(analyzedResults, pipe, batchOf(batchStart))
     IN /\ analyzedResults' = results
        /\ IF batchStart + BATCH_SIZE < Len(selectedRepos)
           THEN /\ batchStart' = batchStart + BATCH_SIZE
                /\ pipe' = startBatch(pipe, batchStart + BATCH_SIZE)
                /\ UNCHANGED <<pc, groupCalls, groupBody>>
           ELSE /\ pc' = "grouping"
                /\ groupCalls' = groupCalls + 1
                /\ groupBody' = [repositories |-> results, totalStats |-> totalStats(results),
                                 userPreferences |-> loadedView]
                /\ UNCHANGED <<batchStart, pipe>>
  /\ UNCHANGED <<prefVars, nOps, urlHistory, routeVars, pageVars, groupOutcome, allowlisted, apiKey, selectedRepos, bundle, showApiKeyModal,
                 pendingAnalysis, phase>>

\* ------------------------------------------------ /api/github/group
namesOf(results) == {results[k].name : k \in 1..Len(results)}

\* analyzedResults.map(r => r.name)
nameList(results) == [k \in 1..Len(results) |-> results[k].name]

groupedRepoNames(groups) == UNION {groups[g].repos : g \in 1..Len(groups)}

\* group/route.ts:281-303: the repositories no group names are appended
\* as one more group
withOtherProjects(repositories, groups) ==
  LET ungroupedRepos == namesOf(repositories) \ groupedRepoNames(groups)
  IN IF ungroupedRepos # {}
     THEN Append(groups, [name |-> "Other Projects", repos |-> ungroupedRepos])
     ELSE groups

\* group/route.ts:340-353: one group per repo.language || 'Other'
fallbackGroups(repositories) ==
  LET lang(r) == IF languageOf(r.name) = "null" THEN "Other" ELSE languageOf(r.name)
      langs == {lang(repositories[k]) : k \in 1..Len(repositories)}
      RECURSIVE build(_, _)
      build(k, seen) ==
        IF k > Len(repositories) THEN <<>>
        ELSE IF lang(repositories[k]) \in seen THEN build(k + 1, seen)
        ELSE <<[name |-> lang(repositories[k]),
                repos |-> {repositories[j].name : j \in
                             {j \in 1..Len(repositories) : lang(repositories[j]) = lang(repositories[k])}}]>>
             \o build(k + 1, seen \cup {lang(repositories[k])})
  IN build(1, {})

\* the catch block reads the body again through request.clone(); once
\* request.json() has consumed the body, clone() throws and the list is []
fallbackRepositories(repositories, bodyUsed) == IF bodyUsed THEN <<>> ELSE repositories

\* POST of group/route.ts; upstream says what the session lookup and the
\* model call do
groupRoute(body, isAllowlisted, keyHeader, upstream) ==
  IF upstream.kind = "unauthorized"
  THEN [status |-> 401, hasGroups |-> FALSE, groups |-> <<>>, insights |-> "null"]
  ELSE IF upstream.kind = "sessionFails"
  THEN [status |-> 200, hasGroups |-> TRUE,
        groups |-> fallbackGroups(fallbackRepositories(body.repositories, FALSE)),
        insights |-> "null"]
  ELSE IF byokRequired(isAllowlisted, keyHeader)
  THEN [status |-> 403, hasGroups |-> FALSE, groups |-> <<>>, insights |-> "null"]
  ELSE IF body.repositories = <<>>
  THEN [status |-> 400, hasGroups |-> FALSE, groups |-> <<>>, insights |-> "null"]
  ELSE IF upstream.kind = "modelFails"
  THEN [status |-> 200, hasGroups |-> TRUE,
        groups |-> fallbackGroups(fallbackRepositories(body.repositories, TRUE)),
        insights |-> "null"]
  ELSE [status |-> 200, hasGroups |-> TRUE,
        groups |-> withOtherProjects(body.repositories, upstream.groups),
        insights |-> "rich"]

\* POST of group/route.ts for a request as the summarizer route takes it:
\* the session, the login, ALLOWED_USERS and the key header
groupServed(req, up) ==
  LET isAllowlisted == isUserAllowlisted(req.login, req.ALLOWED_USERS)
      res == groupRoute([repositories |-> req.repositories], isAllowlisted,
                        truthy(req.keyHeader),
                        [kind |-> IF req.session THEN up ELSE "unauthorized", groups |-> <<>>])
      reachesModel == res.status = 200
  IN [req EXCEPT !.route = "group", !.status = res.status,
                 !.code = IF res.status = 403 THEN "BYOK_REQUIRED"
                          ELSE IF reachesModel /\ up = "modelFails" THEN "fallback" ELSE "none",
                 !.modelCalls = IF reachesModel THEN 1 ELSE 0,
                 !.clientKey = IF res.status \in {401, 403} THEN "none"
                               ELSE clientKey(isAllowlisted, req.keyHeader)]

\* analysisData.groups || [] and the other slots
storedBundle(results, analysisData) ==
  [present |-> TRUE, analyzedRepositories |-> results,
   repositoryGroups |-> IF analysisData.hasGroups THEN analysisData.groups ELSE <<>>,
   yearNarrative |-> analysisData.insights]

\* a grouping step that halts on BYOK_REQUIRED only after it has recorded
\* the scans and written the slots
GroupResponds_writesBeforeHalt(upstream) ==
  /\ pc = "grouping"
  /\ LET res == groupRoute(groupBody, allowlisted, apiKey, upstream)
         analysisData == IF upstream.kind = "throws"
                         THEN [hasGroups |-> TRUE, groups |-> <<>>, insights |-> "null"]
                         ELSE [hasGroups |-> res.hasGroups, groups |-> res.groups,
                               insights |-> res.insights]
         halts == upstream.kind # "throws" /\ res.status = 403
     IN /\ markReposScanned(nameList(analyzedResults))
        /\ bundle' = storedBundle(analyzedResults, analysisData)
        /\ pendingAnalysis' = IF halts THEN TRUE ELSE pendingAnalysis
        /\ showApiKeyModal' = IF halts THEN TRUE ELSE showApiKeyModal
        /\ pc' = IF halts THEN "halted" ELSE "complete"
        /\ phase' = IF halts THEN phase ELSE "complete"
  /\ groupOutcome' = upstream.kind
  /\ UNCHANGED <<nOps, urlHistory, routeVars, pageVars, allowlisted, apiKey, selectedRepos, batchStart, pipe,
                 analyzedResults, groupCalls, groupBody>>

\* analyzeRepositories after await fetch('/api/github/group'); upstream
\* kind "throws" is a failed fetch
GroupResponds(upstream) ==
  /\ pc = "grouping"
  /\ LET res == groupRoute(groupBody, allowlisted, apiKey, upstream)
         analysisData == IF upstream.kind = "throws"
                         THEN [hasGroups |-> TRUE, groups |-> <<>>, insights |-> "null"]
                         ELSE [hasGroups |-> res.hasGroups, groups |-> res.groups,
                               insights |-> res.insights]
     IN IF upstream.kind # "throws" /\ res.status = 403
        THEN /\ pendingAnalysis' = TRUE
             /\ showApiKeyModal' = TRUE
             /\ pc' = "halted"
             /\ UNCHANGED <<prefVars, phase, bundle>>
        ELSE /\ phase' = "complete"
             /\ pc' = "complete"
             /\ markReposScanned(nameList(analyzedResults))
             /\ bundle' = storedBundle(analyzedResults, analysisData)
             /\ UNCHANGED <<pendingAnalysis, showApiKeyModal>>
  /\ groupOutcome' = upstream.kind
  /\ UNCHANGED <<nOps, urlHistory, routeVars, pageVars, allowlisted, apiKey, selectedRepos, batchStart, pipe,
                 analyzedResults, groupCalls, groupBody>>

\* ApiKeyModal onSave: the key is stored and a pending run is invoked again
ModalSave ==
  /\ showApiKeyModal
  /\ apiKey' = TRUE
  /\ showApiKeyModal' = FALSE
  /\ IF pendingAnalysis
     THEN /\ pendingAnalysis' = FALSE
          /\ phase' = "fetching-stats"
          /\ batchStart' = 0
          /\ analyzedResults' = <<>>
          /\ pipe' = startBatch([k \in 1..Len(selectedRepos) |-> idlePipe], 0)
          /\ pc' = "batch"
          /\ groupCalls' = 0
     ELSE UNCHANGED <<pendingAnalysis, phase, batchStart, analyzedResults, pipe, pc, groupCalls>>
  /\ UNCHANGED <<prefVars, nOps, urlHistory, routeVars, pageVars, groupOutcome, allowlisted, selectedRepos, groupBody, bundle>>

\* a close handler that also clears the bundle slots
ModalClose_clearsBundle ==
  /\ showApiKeyModal
  /\ showApiKeyModal' = FALSE
  /\ pendingAnalysis' = FALSE
  /\ pc' = "idle"
  /\ bundle' = [bundle EXCEPT !.present = FALSE]
  /\ UNCHANGED <<prefVars, nOps, urlHistory, routeVars, pageVars, groupOutcome, allowlisted, apiKey,
                 selectedRepos, batchStart, pipe, analyzedResults, groupCalls, groupBody, phase>>

\* ApiKeyModal onClose
ModalClose ==
  /\ showApiKeyModal
  /\ showApiKeyModal' = FALSE
  /\ pendingAnalysis' = FALSE
  /\ pc' = "idle"
  /\ UNCHANGED <<prefVars, nOps, urlHistory, routeVars, pageVars, groupOutcome, allowlisted, apiKey, selectedRepos, batchStart, pipe,
                 analyzedResults, groupCalls, groupBody, bundle, phase>>

\* ------------------------------------------- /api/github/stats: polling
\* fetchContributorStatsWithRetry(octokit, owner, repo, maxRetries = 5, delayMs = 1000)
maxRetries == 5
MaxWeek == 1

\* what octokit.repos.getContributorsStats can do: answer 202
\* ("computing"), throw, answer 200 with no rows ("noRows": not an array or
\* []), with rows none of which has weeks ("noWeeks"), or with weeks whose
\* week.a and week.d add up to a and d ("weeks")
ProviderAnswers ==
  {[kind |-> k, a |-> 0, d |-> 0] : k \in {"computing", "throws", "noRows", "noWeeks"}}
  \cup {[kind |-> "weeks", a |-> a, d |-> d] : a \in 0..MaxWeek, d \in 0..MaxWeek}

zeros == [additions |-> 0, deletions |-> 0]

\* the state at the first evaluation of the loop condition
retryStart ==
  [pc |-> "calling", attempt |-> 0, calls |-> 0, delays |-> 0, seen |-> {},
   last |-> [kind |-> "none", a |-> 0, d |-> 0], result |-> zeros]

\* response.data.some(c => c.weeks && c.weeks.length > 0)
hasAnyWeeks(resp) == resp.kind = "weeks"

\* a policy that waits and polls again whatever attempts remain
retries_noBudget(resp, attempt) ==
  \/ resp.kind \in {"computing", "throws", "noRows"}
  \/ resp.kind \in {"noWeeks", "weeks"} /\ resp.a = 0 /\ resp.d = 0 /\ ~hasAnyWeeks(resp)

\* the branches that end in 'await new Promise(...); continue'
retries(resp, attempt) ==
  /\ attempt < maxRetries - 1
  /\ \/ resp.kind \in {"computing", "throws", "noRows"}
     \/ resp.kind \in {"noWeeks", "weeks"} /\ resp.a = 0 /\ resp.d = 0 /\ ~hasAnyWeeks(resp)

\* the value returned by the branches that return
returned(resp) ==
  IF resp.kind \in {"computing", "throws"} THEN zeros
  ELSE [additions |-> resp.a, deletions |-> resp.d]

\* await octokit.repos.getContributorsStats({ owner, repo }) settles
ProviderResponds(resp) ==
  /\ retry.pc = "calling"
  /\ retry' = [retry EXCEPT
       !.calls = @ + 1,
       !.seen = @ \cup {resp.kind},
       !.last = resp,
       !.pc = IF retries(resp, retry.attempt) THEN "waiting" ELSE "done",
       !.result = IF retries(resp, retry.attempt) THEN @ ELSE returned(resp)]
  /\ UNCHANGED <<prefVars, nOps, urlHistory, runVars, probeModelCalls, served, pageVars>>

\* the timer of delayMs fires; continue; attempt++; attempt < maxRetries
DelayElapsed ==
  /\ retry.pc = "waiting"
  /\ retry' = [retry EXCEPT
       !.delays = @ + 1,
       !.attempt = @ + 1,
       !.pc = IF retry.attempt + 1 < maxRetries THEN "calling" ELSE "done",
       !.result = IF retry.attempt + 1 < maxRetries THEN @ ELSE zeros]
  /\ UNCHANGED <<prefVars, nOps, urlHistory, runVars, probeModelCalls, served, pageVars>>

\* ------------------------------------------------------------ two tabs
\* a helper of preferences.ts running in a tab: loadPreferences(), the
\* mutation of the loaded object, then savePreferences(prefs); another
\* tab's helper may run between the two
Tabs == {1, 2}
MaxCycles == 2

noUpdate == [kind |-> "none", name |-> Absent, now |-> 0]
idleTab == [pc |-> "idle", upd |-> noUpdate, snapshot |-> EmptyPrefs, prefs |-> EmptyPrefs,
            stale |-> FALSE, cycles |-> 0]
noWrite == [tab |-> 0, upd |-> noUpdate, stale |-> FALSE, before |-> noUpdate]

\* setRepoPreference(name, { selected: true }), setRepoPreference(name,
\* { narrative }), markReposScanned([name]) on the object prefs
mutate(prefs, upd) ==
  IF upd.kind = "selected"
  THEN putRepo(prefs, upd.name, applyUpdate(existingOrDefault(prefs, upd.name), [selected |-> TRUE]))
  ELSE IF upd.kind = "narrative"
  THEN putRepo(prefs, upd.name, applyUpdate(existingOrDefault(prefs, upd.name), [narrative |-> "n"]))
  ELSE markAll(prefs, <<upd.name>>, upd.now)

\* loadPreferences() in a tab whose module objects are untouched
tabLoadPreferences == IF storedPrefs.kind = "json" THEN storedPrefs.value ELSE EmptyPrefs

\* a save that reads the slot again and applies its update to that
savedBlob_reloads(t) == stringify(mutate(tabLoadPreferences, tabs[t].upd), <<>>)

\* JSON.stringify(prefs) of the object the helper loaded
savedBlob(t) == stringify(tabs[t].prefs, <<>>)

TabLoads(t, kind, name) ==
  /\ tabs[t].pc = "idle" /\ tabs[t].cycles < MaxCycles
  /\ kind = "scanned" => clock <= MaxClock
  /\ LET upd == [kind |-> kind, name |-> name, now |-> IF kind = "scanned" THEN clock ELSE 0]
     IN tabs' = [tabs EXCEPT ![t] = [pc |-> "loaded", upd |-> upd,
                                     snapshot |-> stringify(tabLoadPreferences, <<>>),
                                     prefs |-> mutate(tabLoadPreferences, upd),
                                     stale |-> FALSE, cycles |-> @.cycles + 1]]
  /\ clock' = IF kind = "scanned" THEN clock + 1 ELSE clock
  /\ UNCHANGED <<storedPrefs, DEFAULT_PREFERENCES, DEFAULT_REPO_PREFERENCE, lastOp, nOps,
                 urlHistory, runVars, routeVars, lastWrite, dashRepositories, wrapped>>

TabSaves(t) ==
  /\ tabs[t].pc = "loaded"
  /\ storedPrefs' = [kind |-> "json", value |-> savedBlob(t)]
  /\ lastWrite' = [tab |-> t, upd |-> tabs[t].upd, stale |-> tabs[t].stale,
                   before |-> lastWrite.upd]
  /\ tabs' = [u \in Tabs |->
                IF u = t THEN [tabs[u] EXCEPT !.pc = "idle"]
                ELSE IF tabs[u].pc = "loaded" THEN [tabs[u] EXCEPT !.stale = TRUE]
                ELSE tabs[u]]
  /\ UNCHANGED <<DEFAULT_PREFERENCES, DEFAULT_REPO_PREFERENCE, clock, lastOp, nOps,
                 urlHistory, runVars, routeVars, dashRepositories, wrapped>>

\* ----------------------------------------------------------- the report
MaxRescans == 2

noScan == [pc |-> "idle", id |-> 0, closure |-> <<>>, stats |-> "none"]

\* the page after its mount effect: setRepositories(JSON.parse(storedRepos))
mounted(slots) ==
  [repositories |-> slots.analyzedRepositories,
   rescanningRepo |-> "null", showApiKeyModal |-> FALSE,
   scans |-> [n \in Names |-> noScan],
   started |-> 0,
   lastRescan |-> [n \in Names |-> "none"]]

\* what the k-th rescan gets from the stats route and from the summarizer
rescanStats(k) == IF k = 1 THEN "stats1" ELSE IF k = 2 THEN "stats2" ELSE "stats3"
rescanSummary(st) ==
  IF st = "stats1" THEN "summary1" ELSE IF st = "stats2" THEN "summary2" ELSE "summary3"

\* repositories.map(r => r.name === repo.name ? { ...r, stats, aiSummary: summary } : r)
\* over the list of the render that created the handler
updatedRepos(closure, name, stats, summary) ==
  [k \in 1..Len(closure) |->
     IF closure[k].name = name
     THEN [closure[k] EXCEPT !.stats = stats, !.summary = summary]
     ELSE closure[k]]

\* the list rescanRepo maps over: the one its render captured
capturedList(scan) == scan.closure

\* the rescan button of repository n: rescanRepo up to its first await
RescanClicked(n) ==
  /\ wrapped.started < MaxRescans
  /\ \E k \in 1..Len(wrapped.repositories) : wrapped.repositories[k].name = n
  /\ wrapped.rescanningRepo # n
  /\ wrapped.scans[n].pc = "idle"
  /\ wrapped' = [wrapped EXCEPT !.rescanningRepo = n,
                                !.started = @ + 1,
                                !.scans[n] = [pc |-> "stats", id |-> wrapped.started + 1,
                                              closure |-> wrapped.repositories,
                                              stats |-> "none"]]
  /\ UNCHANGED <<prefVars, nOps, urlHistory, runVars, routeVars, tabs, lastWrite, dashRepositories>>

\* after await fetch('/api/github/stats')
RescanStatsResponds(n, outcome) ==
  /\ wrapped.scans[n].pc = "stats"
  /\ wrapped' = IF outcome = "throws"
                THEN [wrapped EXCEPT !.scans[n] = noScan, !.rescanningRepo = "null"]
                ELSE [wrapped EXCEPT !.scans[n].pc = "analyze",
                                     !.scans[n].stats = rescanStats(wrapped.scans[n].id)]
  /\ UNCHANGED <<prefVars, nOps, urlHistory, runVars, routeVars, tabs, lastWrite, dashRepositories>>

\* after await fetch('/api/github/analyze'): the rest of rescanRepo
RescanAnalyzeResponds(n, outcome) ==
  /\ wrapped.scans[n].pc = "analyze"
  /\ IF outcome = "throws"
     THEN /\ wrapped' = [wrapped EXCEPT !.scans[n] = noScan, !.rescanningRepo = "null"]
          /\ UNCHANGED <<prefVars, bundle>>
     ELSE IF byokRequired(allowlisted, apiKey)
     THEN /\ wrapped' = [wrapped EXCEPT !.scans[n] = noScan, !.rescanningRepo = "null",
                                        !.showApiKeyModal = TRUE]
          /\ UNCHANGED <<prefVars, bundle>>
     ELSE LET scan == wrapped.scans[n]
              list == updatedRepos(capturedList(scan), n, scan.stats, rescanSummary(scan.stats))
          IN /\ wrapped' = [wrapped EXCEPT !.repositories = list,
                                           !.scans[n] = noScan,
                                           !.rescanningRepo = "null",
                                           !.lastRescan[n] = scan.stats]
             /\ markRepoScanned(n)
             /\ bundle' = [bundle EXCEPT !.analyzedRepositories = list]
  /\ UNCHANGED <<nOps, urlHistory, routeVars, tabs, lastWrite, dashRepositories, allowlisted,
                 apiKey, selectedRepos, pc, batchStart, pipe, analyzedResults, groupCalls,
                 groupBody, groupOutcome, showApiKeyModal, pendingAnalysis, phase>>

\* ======================================================= specifications
FreshRepo == [name : Names, homepage : URLS \cup {NoHomepage}]
FreshLists == UNION {[1..k -> FreshRepo] : k \in 1..MaxFresh}

noBundle == [present |-> FALSE, analyzedRepositories |-> <<>>, repositoryGroups |-> <<>>,
             yearNarrative |-> "null"]
noBody == [repositories |-> <<>>, totalStats |-> totalStats(<<>>), userPreferences |-> EmptyPrefs]

dashboardIdle ==
  /\ pc = "idle" /\ phase = "idle" /\ batchStart = 0 /\ pipe = <<>>
  /\ analyzedResults = <<>> /\ groupCalls = 0 /\ groupBody = noBody
  /\ showApiKeyModal = FALSE /\ pendingAnalysis = FALSE
  /\ groupOutcome = "none"

noUrlHistory == [homepage |-> [n \in Names |-> NoHomepage], userUrls |-> [n \in Names |-> {}]]

\* ---- the preference store on its own: a first visit, then any helpers
InitPrefs ==
  /\ storedPrefs \in {[kind |-> "absent", value |-> EmptyPrefs],
                      [kind |-> "corrupt", value |-> EmptyPrefs]}
  /\ freshRepoObjects
  /\ clock = 1
  /\ lastOp = noOp
  /\ nOps = 0
  /\ urlHistory = noUrlHistory
  /\ allowlisted = FALSE /\ apiKey = FALSE /\ selectedRepos = <<>> /\ bundle = noBundle
  /\ retry = retryStart
  /\ probeModelCalls = 0
  /\ served = noCall
  /\ tabs = [t \in Tabs |-> idleTab]
  /\ lastWrite = noWrite
  /\ dashRepositories = {}
  /\ wrapped = mounted(bundle)
  /\ dashboardIdle

\* the arrays of names a caller may pass, a name twice included
NameLists == UNION {[1..k -> Names] : k \in 0..MaxNamed}

\* one call of a preference helper
Call(helper) ==
  /\ nOps < MaxOps
  /\ helper
  /\ nOps' = nOps + 1
  /\ UNCHANGED <<urlHistory, runVars, routeVars, pageVars>>

NextPrefs ==
  \/ \E n \in Names, v \in BOOLEAN : Call(setRepoPreference(n, [selected |-> v]))
  \/ \E n \in Names, v \in Narratives \cup {Absent} : Call(setRepoPreference(n, [narrative |-> v]))
  \/ \E n \in Names, v \in Groups \cup {Absent} : Call(setRepoPreference(n, [customGroup |-> v]))
  \/ \E m \in Modes : Call(setDefaultMode(m))
  \/ \E n \in Names : Call(toggleAiAssisted(n))
  \/ \E n \in Names : Call(markRepoScanned(n))
  \/ \E ns \in NameLists : Call(markReposScanned(ns))
  \/ \E n \in Names, u \in URLS : Call(addDeploymentUrl(n, customUrl(u)))
  \/ \E n \in Names, u \in URLS : Call(removeDeploymentUrl(n, u))
  \/ \E g \in Groups : Call(createCustomGroup(g, "icon"))
  \/ \E g \in Groups : Call(deleteCustomGroup(g))
  \/ \E fresh \in FreshLists : Call(mergeWithExistingPreferences(fresh))
  \/ Call(resetAllPreferences)
  \/ Call(resetPreferencesKeepSelection)
  \/ \E ns \in SUBSET Names, v \in BOOLEAN : Call(bulkSetAiAssisted(ns, v))
  \/ \E ns \in SUBSET Names, v \in BOOLEAN : Call(bulkSetSelected(ns, v))
  \/ Call(Reload)

SpecPrefs == InitPrefs /\ [][NextPrefs]_vars

\* ---- one dashboard session: a returning user whose selected
\* repositories have records, then analysis runs
selectedRecord == [newRepoRecord("mixed", NoHomepage) EXCEPT !.selected = TRUE]

\* the slots a completed run of an earlier session left
oldBundle ==
  [present |-> TRUE,
   analyzedRepositories |-> <<[name |-> "a", stats |-> "ok", summary |-> "summary"]>>,
   repositoryGroups |-> <<[name |-> "G1", repos |-> {"a"}]>>,
   yearNarrative |-> "rich"]

InitRunWith(sizes, bundles) ==
  /\ \E n \in sizes :
       /\ selectedRepos = SubSeq(RepoNames, 1, n)
       /\ storedPrefs = [kind |-> "json",
                         value |-> [defaultMode |-> "mixed",
                                    repos |-> [r \in {RepoNames[k] : k \in 1..n} |-> selectedRecord],
                                    customGroups |-> <<>>]]
  /\ freshRepoObjects
  /\ clock = 1
  /\ lastOp = noOp
  /\ nOps = 0
  /\ urlHistory = noUrlHistory
  /\ allowlisted \in BOOLEAN /\ apiKey \in BOOLEAN
  /\ bundle \in bundles
  /\ retry = retryStart
  /\ probeModelCalls = 0
  /\ served = noCall
  /\ tabs = [t \in Tabs |-> idleTab]
  /\ lastWrite = noWrite
  /\ dashRepositories = {}
  /\ wrapped = mounted(bundle)
  /\ dashboardIdle

InitRun(sizes) == InitRunWith(sizes, {noBundle})

\* what the model may answer: up to MaxGroups groups over the names sent
\* and one name that was not
GroupSets(names) == SUBSET (names \cup {UnknownRepo})
ModelAnswers(names) ==
  UNION {{[g \in 1..k |-> [name |-> IF g = 1 THEN "G1" ELSE IF g = 2 THEN "G2" ELSE "G3",
                             repos |-> f[g]]] :
            f \in [1..k -> GroupSets(names)]} : k \in 0..MaxGroups}

Upstreams(names) ==
  {[kind |-> k, groups |-> <<>>] : k \in {"throws", "unauthorized", "sessionFails", "modelFails"}}
  \cup {[kind |-> "answer", groups |-> a] : a \in ModelAnswers(names)}

NextRun ==
  \/ ClickAnalyze
  \/ \E o \in {"response", "throws"} : PreflightResponds(o)
  \/ \E k \in DOMAIN pipe, o \in {"ok", "error", "throws"} : StatsResponds(k, o)
  \/ \E k \in DOMAIN pipe, o \in {"summary", "error", "throws"} : AnalyzeResponds(k, o)
  \/ BatchSettled
  \/ \E u \in Upstreams(namesOf(groupBody.repositories)) : GroupResponds(u)
  \/ ModalSave
  \/ ModalClose

SpecRun == InitRunWith(1..MaxSelected, {noBundle, oldBundle}) /\ [][NextRun]_vars

\* ---- a run over more repositories than one batch holds
OneGroup(names) == <<[name |-> "G1", repos |-> names]>>

NextBatch ==
  \/ ClickAnalyze
  \/ PreflightResponds("response")
  \/ \E k \in DOMAIN pipe, o \in {"ok", "throws"} : StatsResponds(k, o)
  \/ \E k \in DOMAIN pipe : AnalyzeResponds(k, "summary")
  \/ BatchSettled
  \/ \E u \in {[kind |-> "throws", groups |-> <<>>],
               [kind |-> "answer", groups |-> OneGroup(namesOf(groupBody.repositories))]} :
        GroupResponds(u)
  \/ ModalSave
  \/ ModalClose

SpecBatch == InitRun({BigRun}) /\ [][NextBatch]_vars

\* ---- deployment URLs: repository lists are merged while the user adds
\* URLs and removes URLs they added
lastHomepageIn(fresh, n, before) ==
  LET ks == {k \in 1..Len(fresh) : fresh[k].name = n /\ fresh[k].homepage # NoHomepage}
  IN IF ks = {} THEN before
     ELSE fresh[CHOOSE k \in ks : \A j \in ks : j <= k].homepage

MergeList(fresh) ==
  /\ nOps < MaxUrlOps
  /\ mergeWithExistingPreferences(fresh)
  /\ urlHistory' = [urlHistory EXCEPT
       !.homepage = [n \in Names |-> lastHomepageIn(fresh, n, urlHistory.homepage[n])]]
  /\ nOps' = nOps + 1
  /\ UNCHANGED <<runVars, routeVars, pageVars>>

storedUrls(n) ==
  IF n \in DOMAIN loadedView.repos THEN loadedView.repos[n].deploymentUrls ELSE <<>>

UserAddsUrl(n, u) ==
  /\ nOps < MaxUrlOps
  /\ addDeploymentUrl(n, customUrl(u))
  /\ urlHistory' = [urlHistory EXCEPT !.userUrls[n] =
       IF hasUrl(urlsOf(existingOrDefault(loadPreferences, n),
                        DEFAULT_REPO_PREFERENCE.deploymentUrls), u)
       THEN @ ELSE @ \cup {u}]
  /\ nOps' = nOps + 1
  /\ UNCHANGED <<runVars, routeVars, pageVars>>

\* the remove button of an entry the user added
UserRemovesUrl(n, u) ==
  /\ nOps < MaxUrlOps
  /\ \E k \in 1..Len(storedUrls(n)) :
       storedUrls(n)[k].url = u /\ ~storedUrls(n)[k].autoDetected
  /\ removeDeploymentUrl(n, u)
  /\ urlHistory' = [urlHistory EXCEPT !.userUrls[n] = @ \ {u}]
  /\ nOps' = nOps + 1
  /\ UNCHANGED <<runVars, routeVars, pageVars>>

PageReload ==
  /\ nOps < MaxUrlOps
  /\ Reload
  /\ nOps' = nOps + 1
  /\ UNCHANGED <<urlHistory, runVars, routeVars, pageVars>>

NextUrls ==
  \/ \E fresh \in FreshLists : MergeList(fresh)
  \/ \E n \in Names, u \in URLS : UserAddsUrl(n, u)
  \/ \E n \in Names, u \in URLS : UserRemovesUrl(n, u)
  \/ PageReload

SpecUrls == InitPrefs /\ [][NextUrls]_vars

\* ---- the AI-assisted flags: the mode selector among the helpers that
\* write aiAssisted
MaxModeOps == 5

\* the lists the provider returns when no repository has a homepage
PlainLists ==
  {<<[name |-> n, homepage |-> NoHomepage]>> : n \in Names}
  \cup {<<[name |-> "a", homepage |-> NoHomepage], [name |-> "b", homepage |-> NoHomepage]>>}

ModeCall(helper) ==
  /\ nOps < MaxModeOps
  /\ helper
  /\ nOps' = nOps + 1
  /\ UNCHANGED <<urlHistory, runVars, routeVars, pageVars>>

NextModes ==
  \/ \E m \in Modes : ModeCall(handleModeChange(m))
  \/ \E m \in Modes : ModeCall(setDefaultMode(m))
  \/ \E n \in Names : ModeCall(toggleAiAssisted(n))
  \/ \E n \in Names, v \in BOOLEAN : ModeCall(setRepoPreference(n, [selected |-> v]))
  \/ \E ns \in SUBSET Names, v \in BOOLEAN : ModeCall(bulkSetAiAssisted(ns, v))
  \/ \E fresh \in PlainLists : ModeCall(mergeWithExistingPreferences(fresh))
  \/ ModeCall(Reload)

SpecModes == InitPrefs /\ [][NextModes]_vars

\* ---- custom groups: two groups are created, assigned and deleted
GroupNames == {"g", "h"}
MaxGroupOps == 4

GroupCall(helper) ==
  /\ nOps < MaxGroupOps
  /\ helper
  /\ nOps' = nOps + 1
  /\ UNCHANGED <<urlHistory, runVars, routeVars, pageVars>>

NextGroups ==
  \/ \E g \in GroupNames : GroupCall(createCustomGroup(g, "icon"))
  \/ \E g \in GroupNames : GroupCall(deleteCustomGroup(g))
  \/ \E n \in Names, v \in GroupNames \cup {Absent} :
       GroupCall(setRepoPreference(n, [customGroup |-> v]))
  \/ \E n \in Names, v \in Narratives : GroupCall(setRepoPreference(n, [narrative |-> v]))
  \/ GroupCall(Reload)

SpecGroups == InitPrefs /\ [][NextGroups]_vars

\* ---- the two model routes serve one request: any session, login,
\* allowlist, key header and body (the routes keep no state between calls)
Logins == {"", " ", "alice", "Alice", "bob"}
AllowEntries == {"", "alice", " Alice ", "bob"}
MaxAllow == 2
AllowedUsers == {<<"undefined">>} \cup UNION {[1..k -> AllowEntries] : k \in 1..MaxAllow}
KeyHeaders == {NoHeader, "", "sk-user"}

Requests ==
  {[noCall EXCEPT !.session = s, !.login = l, !.ALLOWED_USERS = e, !.keyHeader = h] :
     s \in BOOLEAN, l \in Logins, e \in AllowedUsers, h \in KeyHeaders}

ServeAnalyze(req, up) ==
  /\ served' = analyzeRoute(req, up)
  /\ UNCHANGED <<prefVars, nOps, urlHistory, runVars, retry, probeModelCalls, pageVars>>

ServeGroup(req, up) ==
  /\ served' = groupServed(req, up)
  /\ UNCHANGED <<prefVars, nOps, urlHistory, runVars, retry, probeModelCalls, pageVars>>

NextRoutes ==
  \/ /\ served.route = "none"
     /\ \E req \in Requests, n \in {"", "__check__", "a"},
           st \in {"undefined", "empty", "stats"}, up \in {"answer", "modelFails"} :
          ServeAnalyze([req EXCEPT !.repoName = n, !.stats = st], up)
  \/ /\ served.route = "none"
     /\ \E req \in Requests,
           rs \in {<<>>, <<[name |-> "a", stats |-> "ok", summary |-> "summary"]>>},
           up \in {"answer", "modelFails"} :
          ServeGroup([req EXCEPT !.repositories = rs], up)

SpecRoutes == InitPrefs /\ [][NextRoutes]_vars

\* ---- two tabs call helpers on the same slot
NextTabs ==
  \/ \E t \in Tabs, kind \in {"selected", "narrative", "scanned"}, n \in Names :
       TabLoads(t, kind, n)
  \/ \E t \in Tabs : TabSaves(t)

SpecTabs == InitPrefs /\ [][NextTabs]_vars

\* ---- the dashboard's handlers that write preferences
MaxDashOps == 4

\* a record without the property deploymentUrls
MissingUrls == <<[url |-> "undefined", label |-> "undefined", autoDetected |-> FALSE]>>
lacksUrls(prefs, n) == n \in DOMAIN prefs.repos /\ prefs.repos[n].deploymentUrls = MissingUrls

\* { ...prefs.repos[repo.name], selected } when there is no record
bareRecord(selected) ==
  [aiAssisted |-> Absent, selected |-> selected, customGroup |-> Absent, narrative |-> Absent,
   lastScanned |-> 0, scanCount |-> 0, deploymentUrls |-> MissingUrls, sharedUrls |-> FALSE]

\* the assignments the updater of selectAll / deselectAll makes on prefs
withSelected(prefs, ns, selected) ==
  [prefs EXCEPT !.repos =
     [n \in DOMAIN prefs.repos \cup ns |->
        IF n \notin ns THEN prefs.repos[n]
        ELSE IF n \in DOMAIN prefs.repos THEN [prefs.repos[n] EXCEPT !.selected = selected]
        ELSE bareRecord(selected)]]

\* selectAll and deselectAll over the filtered repositories ns. The
\* assignments sit in the updater passed to setRepositories: it runs
\* inside the call (eager) or at the next render, after savePreferences
setAllSelected(ns, selected, eager) ==
  LET prefs == loadPreferences
      du == DEFAULT_REPO_PREFERENCE.deploymentUrls
      after == withSelected(prefs, ns, selected)
  IN /\ storedPrefs' = [kind |-> "json", value |-> stringify(IF eager THEN after ELSE prefs, du)]
     /\ DEFAULT_PREFERENCES' = IF aliased THEN after ELSE DEFAULT_PREFERENCES
     /\ lastOp' = [noOp EXCEPT !.op = IF selected THEN "selectAll" ELSE "deselectAll",
                               !.names = ns, !.writer = "selectAll"]
     /\ UNCHANGED <<DEFAULT_REPO_PREFERENCE, clock>>

selectAll(ns, eager) == setAllSelected(ns, TRUE, eager)
deselectAll(ns, eager) == setAllSelected(ns, FALSE, eager)

\* a helper that reads existing.deploymentUrls of a record without one
throwsTypeError(op, n) ==
  /\ lastOp' = [noOp EXCEPT !.op = op, !.name = n, !.ret = "TypeError", !.writer = lastOp.writer]
  /\ UNCHANGED <<storedPrefs, DEFAULT_PREFERENCES, DEFAULT_REPO_PREFERENCE, clock>>

\* fetchRepositories: mergeWithExistingPreferences(data.repositories)
\* inside try, setRepositories after it
fetchRepositories(fresh) ==
  LET hit == {k \in 1..Len(fresh) :
                lacksUrls(loadPreferences, fresh[k].name) /\ fresh[k].homepage # NoHomepage}
  IN IF hit # {}
     THEN /\ throwsTypeError("mergeWithExistingPreferences", fresh[CHOOSE k \in hit : TRUE].name)
          /\ UNCHANGED dashRepositories
     ELSE /\ mergeWithExistingPreferences(fresh)
          /\ dashRepositories' = {fresh[k].name : k \in 1..Len(fresh)}

\* RepoDetailsModal handleAddUrl
handleAddUrl(n, u) ==
  IF lacksUrls(loadPreferences, n)
  THEN throwsTypeError("addDeploymentUrl", n)
  ELSE addDeploymentUrl(n, customUrl(u))

DashCall(handler) ==
  /\ nOps < MaxDashOps
  /\ handler
  /\ nOps' = nOps + 1
  /\ UNCHANGED <<urlHistory, runVars, routeVars, tabs, lastWrite, wrapped>>

DashLists == PlainLists \cup {<<[name |-> "a", homepage |-> "A"]>>}

NextDash ==
  \/ \E fresh \in DashLists : DashCall(fetchRepositories(fresh))
  \/ \E n \in dashRepositories, v \in BOOLEAN :
       DashCall(setRepoPreference(n, [selected |-> v]) /\ UNCHANGED dashRepositories)
  \/ \E ns \in SUBSET dashRepositories, eager \in BOOLEAN :
       DashCall(selectAll(ns, eager) /\ UNCHANGED dashRepositories)
  \/ \E ns \in SUBSET dashRepositories, eager \in BOOLEAN :
       DashCall(deselectAll(ns, eager) /\ UNCHANGED dashRepositories)
  \/ \E m \in Modes : DashCall(handleModeChange(m) /\ UNCHANGED dashRepositories)
  \/ DashCall(resetAllPreferences /\ UNCHANGED dashRepositories)
  \/ \E n \in dashRepositories, v \in BOOLEAN, x \in Narratives \cup {Absent} :
       DashCall(setRepoPreference(n, [aiAssisted |-> boolStr(v), narrative |-> x,
                                      customGroup |-> Absent])
                /\ UNCHANGED dashRepositories)
  \/ \E n \in dashRepositories, u \in URLS : DashCall(handleAddUrl(n, u) /\ UNCHANGED dashRepositories)

SpecDash == InitPrefs /\ [][NextDash]_vars

\* ---- the report of a completed run over a and b, with rescans
reportBundle ==
  [present |-> TRUE,
   analyzedRepositories |-> <<[name |-> "a", stats |-> "ok", summary |-> "summary"],
                              [name |-> "b", stats |-> "ok", summary |-> "summary"]>>,
   repositoryGroups |-> <<[name |-> "G1", repos |-> {"a", "b"}]>>,
   yearNarrative |-> "rich"]

NextReport ==
  \/ \E n \in Names : RescanClicked(n)
  \/ \E n \in Names, o \in {"ok", "throws"} : RescanStatsResponds(n, o)
  \/ \E n \in Names, o \in {"summary", "throws"} : RescanAnalyzeResponds(n, o)

SpecReport == InitRunWith({2}, {reportBundle}) /\ [][NextReport]_vars

\* ---- one call of the polling helper against any provider
NextRetry ==
  \/ \E resp \in ProviderAnswers : ProviderResponds(resp)
  \/ DelayElapsed

SpecRetry == InitPrefs /\ [][NextRetry]_vars

\* the provider call settles and the timer fires
FairRetry == SpecRetry /\ WF_vars(NextRetry)

\* ================================================================ claims
\* the two-level lookup: the explicit value when there is one, else
\* defaultMode == ai
EffectiveAiAssisted(prefs, r) ==
  IF r \in DOMAIN prefs.repos /\ prefs.repos[r].aiAssisted # Absent
  THEN prefs.repos[r].aiAssisted = "true"
  ELSE prefs.defaultMode = "ai"

\* C1: after toggleAiAssisted(r) the effective AI-assisted value of r is
\* the negation of its effective value before the call, the returned
\* value is the new effective value and repos[r].aiAssisted is present,
\* also when r had no stored record.
C1_ToggleNegatesEffective ==
  [][lastOp'.op = "toggleAiAssisted" =>
       LET r == lastOp'.name
       IN /\ EffectiveAiAssisted(loadedView', r) = ~EffectiveAiAssisted(loadedView, r)
          /\ lastOp'.ret = boolStr(EffectiveAiAssisted(loadedView', r))
          /\ r \in DOMAIN loadedView'.repos
          /\ loadedView'.repos[r].aiAssisted # Absent]_vars

\* C2: whenever the slot is absent, unparseable or was last written by
\* resetAllPreferences, loadPreferences() returns exactly
\* {defaultMode: mixed, repos: {}, customGroups: {}}.
C2_LoadReturnsDefaults ==
  (storedPrefs.kind \in {"absent", "corrupt"} \/ lastOp.writer = "resetAllPreferences")
    => loadedView = EmptyPrefs

userAdded(urls) == SelectSeq(urls, LAMBDA u : ~u.autoDetected)
freshNames(fresh) == {fresh[k].name : k \in 1..Len(fresh)}

\* C3: mergeWithExistingPreferences(freshList) leaves, for every
\* repository that had a record, its narrative, customGroup, aiAssisted,
\* selected, lastScanned, scanCount and every deployment URL that is not
\* auto-detected as they were; records of repositories that are not in
\* freshList, defaultMode and customGroups do not change.
C3_MergeKeepsUserData ==
  [][lastOp'.op = "mergeWithExistingPreferences" =>
       /\ loadedView'.defaultMode = loadedView.defaultMode
       /\ loadedView'.customGroups = loadedView.customGroups
       /\ \A n \in DOMAIN loadedView.repos :
            /\ n \in DOMAIN loadedView'.repos
            /\ loadedView'.repos[n].narrative = loadedView.repos[n].narrative
            /\ loadedView'.repos[n].customGroup = loadedView.repos[n].customGroup
            /\ loadedView'.repos[n].aiAssisted = loadedView.repos[n].aiAssisted
            /\ loadedView'.repos[n].selected = loadedView.repos[n].selected
            /\ loadedView'.repos[n].lastScanned = loadedView.repos[n].lastScanned
            /\ loadedView'.repos[n].scanCount = loadedView.repos[n].scanCount
            /\ userAdded(loadedView'.repos[n].deploymentUrls)
                 = userAdded(loadedView.repos[n].deploymentUrls)
            /\ n \notin freshNames(lastOp'.fresh) => loadedView'.repos[n] = loadedView.repos[n]]_vars

\* a merge has just met a repository that carries user data (a URL the
\* user added, a narrative or a scan count) and has given it the
\* homepage of the list as its auto-detected URL
C3_Witness ==
  /\ lastOp.op = "mergeWithExistingPreferences"
  /\ \E k \in 1..Len(lastOp.fresh) :
       /\ lastOp.fresh[k].name \in DOMAIN loadedView.repos
       /\ lastOp.fresh[k].homepage # NoHomepage
       /\ LET rec == loadedView.repos[lastOp.fresh[k].name]
          IN /\ userAdded(rec.deploymentUrls) # <<>>
             /\ rec.narrative # Absent \/ rec.scanCount > 0 \/ rec.selected
             /\ \E i \in 1..Len(rec.deploymentUrls) :
                  /\ rec.deploymentUrls[i].autoDetected
                  /\ rec.deploymentUrls[i].url = lastOp.fresh[k].homepage

\* C4: a repository of the list that had no record gets one whose
\* aiAssisted is present and is true exactly when defaultMode is ai,
\* whose selected is false and whose deploymentUrls is the one
\* auto-detected entry of its homepage, or empty when it has none.
C4_NewRepoSeeded ==
  [][lastOp'.op = "mergeWithExistingPreferences" =>
       \A n \in freshNames(lastOp'.fresh) \ DOMAIN loadedView.repos :
         LET homepage == lastHomepageIn(lastOp'.fresh, n, NoHomepage)
             rec == loadedView'.repos[n]
         IN /\ n \in DOMAIN loadedView'.repos
            /\ rec.aiAssisted = (IF loadedView.defaultMode = "ai" THEN "true" ELSE "false")
            /\ rec.selected = FALSE
            /\ IF homepage = NoHomepage THEN rec.deploymentUrls = <<>>
               ELSE /\ Len(rec.deploymentUrls) = 1
                    /\ rec.deploymentUrls[1].autoDetected
                    /\ rec.deploymentUrls[1].url = homepage]_vars

\* the second helper called was a merge under defaultMode ai, and it left
\* a record seeded true with one auto-detected URL: the first helper set
\* the mode, so the merge created the record
C4_Witness ==
  /\ lastOp.op = "mergeWithExistingPreferences"
  /\ nOps = 2
  /\ loadedView.defaultMode = "ai"
  /\ \E n \in DOMAIN loadedView.repos :
       /\ loadedView.repos[n].aiAssisted = "true"
       /\ Len(loadedView.repos[n].deploymentUrls) = 1
       /\ loadedView.repos[n].deploymentUrls[1].autoDetected

\* C5: once merges have given a repository a homepage, and whatever
\* URLs the user has added or removed in between, its deploymentUrls
\* holds exactly one auto-detected entry, that of the latest homepage,
\* and every URL the user added and did not remove.
C5_OneAutoUrlOfLatestHomepage ==
  \A n \in Names :
    urlHistory.homepage[n] # NoHomepage =>
      LET urls == storedUrls(n)
          autos == {k \in 1..Len(urls) : urls[k].autoDetected}
      IN /\ Cardinality(autos) = 1
         /\ \A k \in autos : urls[k].url = urlHistory.homepage[n]
         /\ \A u \in urlHistory.userUrls[n] : \E k \in 1..Len(urls) : urls[k] = customUrl(u)

\* C6: no repository's deploymentUrls holds two entries with the same url.
C6_UrlsDeduplicated ==
  \A n \in DOMAIN loadedView.repos :
    LET urls == loadedView.repos[n].deploymentUrls
    IN \A i, j \in 1..Len(urls) : i # j => urls[i].url # urls[j].url

\* C7: whatever the grouping collaborator answers, the groups stored in
\* the bundle of a completed run partition the analyzed repositories:
\* their union is the set of analyzed names and no name is in two groups.
C7_GroupsPartitionAnalyzed ==
  bundle.present =>
    LET groups == bundle.repositoryGroups
    IN /\ groupedRepoNames(groups) = namesOf(bundle.analyzedRepositories)
       /\ \A g, h \in 1..Len(groups) : g # h => groups[g].repos \cap groups[h].repos = {}

RECURSIVE sumOver(_, _)
sumOver(f, S) ==
  IF S = {} THEN 0
  ELSE LET x == CHOOSE y \in S : TRUE IN f[x] + sumOver(f, S \ {x})

\* the positions whose stats fetch failed: an error answer or a failed call
statsFailed == {k \in DOMAIN pipe : pipe[k].stats \in {"error", "threw"}}
\* the positions whose two fetches both succeeded
succeeded == {k \in DOMAIN pipe : pipe[k].st = "ok" /\ pipe[k].stats = "ok"}

\* C8: when a run has completed, a selected repository whose stats fetch
\* failed is not in the analyzed list, carries an error marker, adds
\* nothing to the totals sent to the grouping call and is not passed to
\* markReposScanned; every repository that did not fail is in the list.
C8_StatsFailureExcluded ==
  pc = "complete" =>
    /\ \A k \in statsFailed :
         /\ selectedRepos[k] \notin namesOf(analyzedResults)
         /\ pipe[k].error # Absent
         /\ selectedRepos[k] \notin lastOp.names
    /\ \A k \in succeeded : selectedRepos[k] \in namesOf(analyzedResults)
    /\ lastOp.op = "markReposScanned"
    /\ groupBody.totalStats.totalCommits
         = sumOver([k \in DOMAIN pipe |-> statsJson(selectedRepos[k], "ok").commits], succeeded)
    /\ groupBody.totalStats.totalNet
         = sumOver([k \in DOMAIN pipe |-> statsJson(selectedRepos[k], "ok").net], succeeded)

inFlight == {k \in DOMAIN pipe : pipe[k].st \in {"stats", "analyze"}}

\* C9: at every moment at most 8 per-repository pipelines are in flight,
\* and no pipeline of a later batch has started while a pipeline of an
\* earlier batch has not settled, by success or by failure.
C9_BatchesOfEightInSequence ==
  /\ Cardinality(inFlight) <= 8
  /\ \A j, k \in DOMAIN pipe :
       ((j - 1) \div 8 < (k - 1) \div 8 /\ pipe[k].st # "idle")
         => pipe[j].st \in {"ok", "failed"}

\* the ninth repository has started, after a first batch in which one
\* pipeline failed and one succeeded
C9_Witness ==
  /\ Len(pipe) > 8
  /\ pipe[9].st \in {"stats", "analyze"}
  /\ \E j \in 1..8 : pipe[j].st = "failed"
  /\ \E j \in 1..8 : pipe[j].st = "ok"

C11_RetryTerminatesWithinBudget ==
  /\ [](/\ retry.calls <= 5
        /\ retry.delays <= 5 - 1
        /\ (retry.pc = "done" /\ retry.seen \subseteq {"computing", "throws"})
             => (retry.calls = 5 /\ retry.result = [additions |-> 0, deletions |-> 0]))
  /\ <>(retry.pc = "done")

\* the helper has returned after a provider that only answered 202 or threw
C11_Witness ==
  /\ retry.pc = "done"
  /\ retry.seen # {}
  /\ retry.seen \subseteq {"computing", "throws"}
  /\ retry.delays = 4

\* the partition of a set of repository names by repo.language, the
\* repositories without one together
byLanguage(names) == {{m \in names : languageOf(m) = languageOf(n)} : n \in names}

\* C12: when the grouping stage fails, by a failed model call inside the
\* route or by a failed call of the route, the run completes and the
\* stored groups are the partition of the analyzed repositories by
\* primary language, with no narrative.
C12_FallbackGroupsByLanguage ==
  (pc = "complete" /\ groupOutcome \in {"modelFails", "throws"}) =>
    LET groups == bundle.repositoryGroups
    IN /\ bundle.present
       /\ {groups[g].repos : g \in 1..Len(groups)} = byLanguage(namesOf(bundle.analyzedRepositories))
       /\ Len(groups) = Cardinality(byLanguage(namesOf(bundle.analyzedRepositories)))
       /\ bundle.yearNarrative = "null"

\* C13: a run halted by a credential-required answer has written
\* nothing: the preferences hold no scan metadata and the bundle is the
\* one the session started with, the halting step itself leaves the preference slot and the bundle
\* as they were, and a run halted at the pre-flight probe has issued no
\* stats or summarizer call for any repository.
C13_HaltWritesNothing ==
  /\ [](pc = "halted" =>
          /\ bundle \in {noBundle, oldBundle}
          /\ lastOp.op # "markReposScanned"
          /\ \A r \in DOMAIN loadedView.repos :
               loadedView.repos[r].scanCount = 0 /\ loadedView.repos[r].lastScanned = 0
          /\ groupCalls = 0 => pipe = <<>>)
  /\ [][pc' = "halted" => (storedPrefs' = storedPrefs /\ bundle' = bundle)]_vars

\* a run halted at the grouping call, after its batches
C13_Witness ==
  /\ pc = "halted"
  /\ groupCalls = 1
  /\ pipe # <<>>
  /\ showApiKeyModal

explicitAi(prefs, r) == r \in DOMAIN prefs.repos /\ prefs.repos[r].aiAssisted # Absent

\* C14: setDefaultMode(mode) changes only defaultMode: every record and
\* customGroups stay as they were, a repository without an explicit
\* aiAssisted has the effective value mode == ai afterwards, and a
\* repository with an explicit aiAssisted keeps its effective value.
C14_SetDefaultModeFrame ==
  [][lastOp'.op = "setDefaultMode" =>
       /\ loadedView'.defaultMode = lastOp'.arg
       /\ loadedView'.repos = loadedView.repos
       /\ loadedView'.customGroups = loadedView.customGroups
       /\ \A r \in Names :
            IF explicitAi(loadedView, r)
            THEN EffectiveAiAssisted(loadedView', r) = EffectiveAiAssisted(loadedView, r)
            ELSE EffectiveAiAssisted(loadedView', r) = (lastOp'.arg = "ai")]_vars

\* setDefaultMode(ai) has run over a record without an explicit value and
\* a record with an explicit false
C14_Witness ==
  /\ lastOp.op = "setDefaultMode"
  /\ lastOp.arg = "ai"
  /\ \E r \in DOMAIN loadedView.repos : loadedView.repos[r].aiAssisted = Absent
  /\ \E r \in DOMAIN loadedView.repos : loadedView.repos[r].aiAssisted = "false"

\* C15: over any set of repositories that have a record, the report's aiAssistedRepos and
\* manualRepos, the export's isAi flag and the grouping route's
\* userReportedAiRepos and userReportedManualRepos all classify a
\* repository by (explicit aiAssisted if present, else defaultMode == ai),
\* so each pair of counts adds up to the number of repositories.
C15_CountsUseTwoLevelLookup ==
  \A S \in SUBSET DOMAIN loadedView.repos :
    LET ai == {r \in S : EffectiveAiAssisted(loadedView, r)}
    IN /\ aiAssistedRepos(loadedView, S) = Cardinality(ai)
       /\ manualRepos(loadedView, S) = Cardinality(S \ ai)
       /\ \A r \in S : isAiAssisted(loadedView, r) = (r \in ai)
       /\ userReportedAiRepos(loadedView, S) = Cardinality(ai)
       /\ userReportedManualRepos(loadedView, S) = Cardinality(S \ ai)
       /\ userReportedAiRepos(loadedView, S) + userReportedManualRepos(loadedView, S)
            = Cardinality(S)

occurrences(list, n) == Cardinality({k \in 1..Len(list) : list[k] = n})
scanCountOf(prefs, n) == IF n \in DOMAIN prefs.repos THEN prefs.repos[n].scanCount ELSE 0

\* what a markReposScanned step does to the loaded preferences: each named
\* repository's scanCount grows by added[n], the named repositories share
\* one lastScanned, nothing else changes
scanStep(pre, post, list, added) ==
  LET named == {list[k] : k \in 1..Len(list)}
  IN /\ post.defaultMode = pre.defaultMode
     /\ post.customGroups = pre.customGroups
     /\ DOMAIN post.repos = DOMAIN pre.repos \cup named
     /\ \A n \in named :
          /\ post.repos[n].scanCount = scanCountOf(pre, n) + added[n]
          /\ post.repos[n].lastScanned # 0
          /\ \A m \in named : post.repos[m].lastScanned = post.repos[n].lastScanned
          /\ n \in DOMAIN pre.repos =>
               [post.repos[n] EXCEPT !.lastScanned = pre.repos[n].lastScanned,
                                     !.scanCount = pre.repos[n].scanCount] = pre.repos[n]
     /\ \A n \in DOMAIN pre.repos \ named : post.repos[n] = pre.repos[n]

\* lastScanned is present exactly on the records that were scanned
scannedIffCounted ==
  \A r \in DOMAIN loadedView.repos :
    (loadedView.repos[r].lastScanned # 0) <=> (loadedView.repos[r].scanCount >= 1)

\* C16 as stated: after markReposScanned(names) every named repository
\* has its previous scanCount plus exactly 1, all named repositories carry
\* the same lastScanned, every other field and every other record is
\* unchanged, and lastScanned is present exactly when scanCount >= 1.
C16_ScanCountPlusOne ==
  /\ [][lastOp'.op = "markReposScanned" =>
          scanStep(loadedView, loadedView', lastOp'.list, [n \in Names |-> 1])]_vars
  /\ []scannedIffCounted

\* C16 amended: every named repository has its previous scanCount plus
\* the number of times the call names it (1 when the names are distinct);
\* the rest as stated.
C16_ScanCountPlusOccurrences ==
  /\ [][lastOp'.op = "markReposScanned" =>
          scanStep(loadedView, loadedView', lastOp'.list,
                   [n \in Names |-> occurrences(lastOp'.list, n)])]_vars
  /\ []scannedIffCounted

\* markReposScanned has marked two repositories at once, one that had
\* been scanned before and one that had not
C16_Witness ==
  /\ lastOp.op = "markReposScanned"
  /\ Len(lastOp.list) = 2
  /\ \E n, m \in DOMAIN loadedView.repos :
       /\ n \in lastOp.names /\ m \in lastOp.names
       /\ loadedView.repos[n].scanCount = 2
       /\ loadedView.repos[m].scanCount = 1

\* C17: the bundle slots change only in the last step of a run that
\* completes; in every state before it (batches in flight, grouping call
\* outstanding, run halted) they hold what they held when the session
\* started.
C17_BundleWrittenOnlyAtCompletion ==
  /\ [][bundle' # bundle => (pc = "grouping" /\ pc' = "complete" /\ phase' = "complete")]_vars
  /\ [](phase # "complete" => bundle \in {noBundle, oldBundle})

\* the grouping call of a run is outstanding and the bundle of the
\* earlier session is still in the slots
C17_Witness ==
  /\ pc = "grouping"
  /\ analyzedResults # <<>>
  /\ bundle = oldBundle

\* C18: a 200 answer whose contributor-weeks are all zero is retried
\* while attempts remain, as an answer without data rows is: when the
\* helper has returned on an answer that carries no additions and no
\* deletions, it has used its whole budget of 5 calls.
C18_AllZeroWeeksRetried ==
  (/\ retry.pc = "done"
   /\ retry.last.kind \in {"weeks", "noWeeks", "noRows"}
   /\ retry.last.a = 0 /\ retry.last.d = 0)
    => retry.calls = 5

\* C19: a credential-required answer of the summarizer is never kept as
\* a repository's error marker by a run that goes on: whenever a pipeline
\* carries BYOK_REQUIRED the run has halted and the key prompt is shown.
C19_CredentialRequiredHalts ==
  \A k \in DOMAIN pipe :
    pipe[k].error = "BYOK_REQUIRED" => (pc = "halted" /\ showApiKeyModal)

\* C20: after the mode selector's handler has run with mode ai or manual,
\* defaultMode is that mode, no record has an explicit aiAssisted and every
\* repository's effective value is (mode == ai); with mode mixed every
\* explicit aiAssisted stays; in both cases no other field of a record,
\* no record's presence and no custom group changes.
C20_ModeChangeClearsOverrides ==
  [][lastOp'.op = "handleModeChange" =>
       /\ loadedView'.defaultMode = lastOp'.arg
       /\ loadedView'.customGroups = loadedView.customGroups
       /\ DOMAIN loadedView'.repos = DOMAIN loadedView.repos
       /\ \A r \in DOMAIN loadedView.repos :
            [loadedView'.repos[r] EXCEPT !.aiAssisted = loadedView.repos[r].aiAssisted]
              = loadedView.repos[r]
       /\ IF lastOp'.arg = "mixed"
          THEN \A r \in DOMAIN loadedView.repos :
                 loadedView'.repos[r].aiAssisted = loadedView.repos[r].aiAssisted
          ELSE /\ \A r \in DOMAIN loadedView'.repos : loadedView'.repos[r].aiAssisted = Absent
               /\ \A r \in Names :
                    EffectiveAiAssisted(loadedView', r) = (lastOp'.arg = "ai")]_vars

\* the handler has run with mode manual over a record the user had
\* selected: the record is there without an explicit aiAssisted
C20_Witness ==
  /\ lastOp.op = "handleModeChange"
  /\ lastOp.arg = "manual"
  /\ \E r \in DOMAIN loadedView.repos :
       loadedView.repos[r].selected /\ loadedView.repos[r].aiAssisted = Absent

\* C21: after deleteCustomGroup(name) customGroups has no key name and
\* no record has customGroup equal to name; the other groups, the records
\* that referenced another group or none, and every other field of the
\* records that referenced name are unchanged.
C21_DeleteGroupClearsReferences ==
  [][lastOp'.op = "deleteCustomGroup" =>
       /\ lastOp'.arg \notin DOMAIN loadedView'.customGroups
       /\ DOMAIN loadedView'.customGroups = DOMAIN loadedView.customGroups \ {lastOp'.arg}
       /\ \A g \in DOMAIN loadedView'.customGroups :
            loadedView'.customGroups[g] = loadedView.customGroups[g]
       /\ loadedView'.defaultMode = loadedView.defaultMode
       /\ DOMAIN loadedView'.repos = DOMAIN loadedView.repos
       /\ \A r \in DOMAIN loadedView.repos :
            /\ loadedView'.repos[r].customGroup # lastOp'.arg
            /\ loadedView.repos[r].customGroup # lastOp'.arg
                 => loadedView'.repos[r] = loadedView.repos[r]
            /\ [loadedView'.repos[r] EXCEPT !.customGroup = loadedView.repos[r].customGroup]
                 = loadedView.repos[r]]_vars

\* group g has been deleted next to a record assigned to group h and a
\* record, with a narrative, that is in no group
C21_Witness ==
  /\ lastOp.op = "deleteCustomGroup"
  /\ lastOp.arg = "g"
  /\ \E r \in DOMAIN loadedView.repos : loadedView.repos[r].customGroup = "h"
  /\ \E r \in DOMAIN loadedView.repos :
       loadedView.repos[r].customGroup = Absent /\ loadedView.repos[r].narrative # Absent

\* C22: addDeploymentUrl is idempotent (a second call with the same
\* arguments right after the first leaves the blob as it is), adding a url
\* string the repository already holds leaves the blob unchanged, and
\* removeDeploymentUrl(name, s) removes exactly the entries whose url is
\* s, keeps the others in their order, leaves the other records alone and
\* writes nothing when name has no record.
keptUrls(urls, s) == SelectSeq(urls, LAMBDA e : e.url # s)

C22_AddIdempotentRemoveExact ==
  [][/\ (/\ lastOp'.op = "addDeploymentUrl"
         /\ lastOp.op = "addDeploymentUrl"
         /\ lastOp'.name = lastOp.name
         /\ lastOp'.arg = lastOp.arg) => storedPrefs' = storedPrefs
     /\ (/\ lastOp'.op = "addDeploymentUrl"
         /\ lastOp'.name \in DOMAIN loadedView.repos
         /\ hasUrl(loadedView.repos[lastOp'.name].deploymentUrls, lastOp'.arg))
          => storedPrefs' = storedPrefs
     /\ (lastOp'.op = "removeDeploymentUrl" /\ lastOp'.name \in DOMAIN loadedView.repos)
          => /\ DOMAIN loadedView'.repos = DOMAIN loadedView.repos
             /\ loadedView'.repos[lastOp'.name].deploymentUrls
                  = keptUrls(loadedView.repos[lastOp'.name].deploymentUrls, lastOp'.arg)
             /\ \A r \in DOMAIN loadedView.repos \ {lastOp'.name} :
                  loadedView'.repos[r] = loadedView.repos[r]
     /\ (lastOp'.op = "removeDeploymentUrl" /\ lastOp'.name \notin DOMAIN loadedView.repos)
          => storedPrefs' = storedPrefs]_vars

\* url A was added to a again after A and B had been added
C22_Witness ==
  /\ lastOp.op = "addDeploymentUrl"
  /\ lastOp.name = "a"
  /\ lastOp.arg = "A"
  /\ storedUrls("a") = <<customUrl("A"), customUrl("B")>>

\* url A was removed from a, which held A and B
C22_WitnessRemove ==
  /\ lastOp.op = "removeDeploymentUrl"
  /\ lastOp.name = "a"
  /\ lastOp.arg = "A"
  /\ nOps = 3
  /\ storedUrls("a") = <<customUrl("B")>>

\* C23: the credential probe is zero-cost for every caller: serving the
\* '__check__' request with empty stats never makes a call to the
\* upstream language model, for an allowlisted caller or any other.
C23_ProbeNeverCallsModel == probeModelCalls = 0

\* C25: the summarizer and the grouping route answer 403 with code
\* BYOK_REQUIRED exactly when the session is authenticated, the login is
\* not in the allowlist (an empty login never is) and no user key is
\* supplied; then no upstream model call is made; and for an allowlisted
\* caller the server key is used even when a user key is supplied.
inAllowlist(login, env) ==
  /\ login # ""
  /\ env # <<"undefined">>
  /\ \E k \in 1..Len(env) : env[k] # "" /\ toLowerCase(trim(env[k])) = toLowerCase(login)

keySupplied(header) == header \notin {NoHeader, ""}

C25_WitnessRefused ==
  /\ served.route = "analyze"
  /\ served.session
  /\ served.login = ""
  /\ served.ALLOWED_USERS = <<"", "alice">>
  /\ served.keyHeader = NoHeader
  /\ served.status = 403

\* C24: the helpers are unlocked load, mutate, save cycles over the whole
\* blob. Every save leaves the blob its writer computed from what it had
\* loaded. When a writer saves after another writer saved since its load
\* (the cycles overlap), the other writer's update to a different
\* repository is absent: that record is as in the last writer's snapshot,
\* nothing is merged and nothing is detected. When the writer loaded
\* after the save before it (no overlap), both updates are present.
present(view, upd) ==
  /\ upd.name \in DOMAIN view.repos
  /\ IF upd.kind = "selected" THEN view.repos[upd.name].selected
     ELSE IF upd.kind = "narrative" THEN view.repos[upd.name].narrative = "n"
     ELSE view.repos[upd.name].lastScanned = upd.now

recordOf(view, n) == IF n \in DOMAIN view.repos THEN <<view.repos[n]>> ELSE <<>>

C24_LastWriterWins ==
  [][\A t \in Tabs :
       (tabs[t].pc = "loaded" /\ tabs'[t].pc = "idle") =>
         /\ loadedView' = stringify(mutate(tabs[t].snapshot, tabs[t].upd), <<>>)
         /\ present(loadedView', tabs[t].upd)
         /\ (tabs[t].stale /\ lastWrite.tab # t /\ lastWrite.upd.name # tabs[t].upd.name)
              => /\ recordOf(loadedView', lastWrite.upd.name)
                      = recordOf(tabs[t].snapshot, lastWrite.upd.name)
                 /\ ~present(tabs[t].snapshot, lastWrite.upd)
                      => ~present(loadedView', lastWrite.upd)
         /\ (~tabs[t].stale /\ lastWrite.tab \notin {0, t}
               /\ <<lastWrite.upd.name, lastWrite.upd.kind>>
                    # <<tabs[t].upd.name, tabs[t].upd.kind>>)
              => present(loadedView', lastWrite.upd)]_vars

\* tab 2 saved after tab 1 had saved since tab 2's load, and tab 1's
\* update of the other repository is gone from the slot
C24_Witness ==
  /\ lastWrite.tab = 2
  /\ lastWrite.stale
  /\ lastWrite.before.kind # "none"
  /\ lastWrite.before.name # lastWrite.upd.name
  /\ ~present(loadedView, lastWrite.before)
  /\ present(loadedView, lastWrite.upd)

\* tab 2 loaded and saved after tab 1 had saved: both updates are stored
C24_WitnessSequential ==
  /\ lastWrite.tab = 2
  /\ ~lastWrite.stale
  /\ lastWrite.before.kind # "none"
  /\ lastWrite.before.name # lastWrite.upd.name
  /\ present(loadedView, lastWrite.before)
  /\ present(loadedView, lastWrite.upd)

\* C26: the stored bundle is replaced only by a successful run: no step
\* replaces a stored bundle that has repositories by one with an empty
\* repository list and empty groups.
C26_EmptyRunKeepsBundle ==
  [][(bundle.present /\ bundle.analyzedRepositories # <<>>)
       => ~(bundle'.analyzedRepositories = <<>> /\ bundle'.repositoryGroups = <<>>)]_vars

\* C27: addDeploymentUrl(name, url) affects only the named repository:
\* for every other repository m, with or without a record,
\* getRepoPreference(m).deploymentUrls is the same before and after, so
\* the record handed out for a repository without one has no URLs.
C27_AddUrlTouchesOneRepo ==
  [][lastOp'.op = "addDeploymentUrl" =>
       \A m \in Names \ {lastOp'.name} :
         /\ getRepoPreference(m)'.deploymentUrls = getRepoPreference(m).deploymentUrls
         /\ m \notin DOMAIN loadedView'.repos => getRepoPreference(m)'.deploymentUrls = <<>>]_vars

\* C28: after any sequence of dashboard actions (list merge, toggling a
\* selection, select all, deselect all, mode change, reset, saving the
\* details) every stored record has a deploymentUrls sequence, so no
\* later helper fails on a record without one.
C28_RecordsKeepDeploymentUrls ==
  /\ \A n \in DOMAIN loadedView.repos : ~lacksUrls(loadedView, n)
  /\ lastOp.ret # "TypeError"

\* C29: the progress phase differs from idle only while a run is in
\* flight or after a run completed: once a run has halted on
\* credential-required and the prompt was dismissed, no run is in flight,
\* the phase is idle and the start control is enabled for the selection.
C29_DismissedHaltReenablesStart ==
  (pc = "idle" /\ ~showApiKeyModal /\ Len(selectedRepos) > 0) => phase = "idle"

\* C30: when rescans of two different repositories overlap and both
\* succeed, then once no rescan is in flight the persisted
\* analyzedRepositories holds, for each repository, the stats and the
\* summary of its last successful rescan, whichever finished last.
C30_OverlappingRescansBothKept ==
  (\A n \in Names : wrapped.scans[n].pc = "idle") =>
    \A k \in 1..Len(bundle.analyzedRepositories) :
      LET r == bundle.analyzedRepositories[k]
      IN wrapped.lastRescan[r.name] # "none"
           => /\ r.stats = wrapped.lastRescan[r.name]
              /\ r.summary = rescanSummary(wrapped.lastRescan[r.name])
====
